---- MODULE Spec2Model ----
(***************************************************************************)
(* Model of the CacheManager expiration-and-eviction engine:               *)
(*   MinHeap (src/src/expiration/TTLHeap.js), DoublyLinkedList             *)
(*   (src/src/eviction/LRUPolicy.js), MyCache (src/src/core/Cache.js),     *)
(*   Debounce (src/src/utils/debounce.js), ScheduledTask                   *)
(*   (src/src/persistence/index.js), TaskQueue                             *)
(*   (src/src/taskQueue/TaskQueue.js), CacheManager (src/unnamed/part_001),*)
(*   PersistentCache (src/src/persistence/PersistentCache.js) and          *)
(*   MinimalPersistence (src/src/persistence/MinimalPersistence.js).       *)
(* Time is the value Date.now() returns; one handler runs at one instant.  *)
(***************************************************************************)
EXTENDS Integers, Sequences, FiniteSets, TLC

\* ------------------------------------------------------------------ bounds
\* Date.now() when the model starts: beyond every interval and window
Epoch == 10000
\* number of instants the clock moves on from Epoch
MaxTime == 2
\* largest finite ttl / interval passed to an operation
MaxTTL == 2
\* largest priority pushed on a heap that is driven alone
MaxPriority == 2

\* ------------------------------------------------------- program constants
\* JS Infinity: larger than every timestamp of the model, never added to
Infinity == 1000000
\* JS null passed as a ttl (not a number: below every valid ttl)
Null == -1
\* the other ttl arguments _validateTTL refuses: NaN, a value that is not of
\* type number, and a negative number
NaN == -2
NotNumber == -3
Negative == -4

Keys == {"a", "b", "c"}
Keys4 == {"a", "b", "c", "d"}
\* keys of the specifications that follow expiry rather than recency
Keys2 == {"a", "b"}
\* key arguments _validateKey refuses: the empty string, a string of white
\* space, and (in angle brackets) a value that is not of type string
BlankKeys == {"", " "}
NonStringKeys == {"<42>"}

\* ------------------------------------------------------------ JS Map helpers
EmptyMap == [x \in {} |-> 0]
MapSet(m, k, v) == [x \in (DOMAIN m) \cup {k} |-> IF x = k THEN v ELSE m[x]]
MapDelete(m, k) == [x \in (DOMAIN m) \ {k} |-> m[x]]
MapHas(m, k) == k \in DOMAIN m

Max(a, b) == IF a >= b THEN a ELSE b
Min(a, b) == IF a <= b THEN a ELSE b

\* ---------------------------------------------------------------- MinHeap
\* A MinHeap object: the array `heap` (index i of the code is heap[i+1])
\* and the Map `keyToIndex` (0-based indices, as in the code).
HeapItem(k, e) == [key |-> k, expiresAt |-> e]

MinHeap_new == [heap |-> <<>>, keyToIndex |-> EmptyMap]

HeapAt(H, i) == H.heap[i + 1]

\* Array.prototype.pop on the heap array
ArrayPop(s) == SubSeq(s, 1, Len(s) - 1)

\* the two keyToIndex.set calls and the destructuring swap of _bubbleUp/_bubbleDown
HeapSwap(H, i, j) ==
  [heap |-> [H.heap EXCEPT ![i + 1] = H.heap[j + 1], ![j + 1] = H.heap[i + 1]],
   keyToIndex |-> MapSet(MapSet(H.keyToIndex, HeapAt(H, i).key, j),
                         HeapAt(H, j).key, i)]

RECURSIVE MinHeap_bubbleUp(_, _)
MinHeap_bubbleUp(H, index) ==
  IF index <= 0 THEN H
  ELSE LET parentIndex == (index - 1) \div 2 IN
       IF HeapAt(H, parentIndex).expiresAt <= HeapAt(H, index).expiresAt
       THEN H
       ELSE MinHeap_bubbleUp(HeapSwap(H, parentIndex, index), parentIndex)

RECURSIVE MinHeap_bubbleDown(_, _)
MinHeap_bubbleDown(H, index) ==
  LET leftChild == 2 * index + 1
      rightChild == 2 * index + 2
      m1 == IF leftChild < Len(H.heap)
               /\ HeapAt(H, leftChild).expiresAt < HeapAt(H, index).expiresAt
            THEN leftChild ELSE index
      minIndex == IF rightChild < Len(H.heap)
                     /\ HeapAt(H, rightChild).expiresAt < HeapAt(H, m1).expiresAt
                  THEN rightChild ELSE m1
  IN IF minIndex = index THEN H
     ELSE MinHeap_bubbleDown(HeapSwap(H, index, minIndex), minIndex)

\* remove that always sifts the moved item down, never up
MinHeap_remove_downOnly(H, key) ==
  IF ~MapHas(H.keyToIndex, key) THEN H
  ELSE LET index == H.keyToIndex[key]
           k2i == MapDelete(H.keyToIndex, key)
       IN IF index = Len(H.heap) - 1
          THEN [heap |-> ArrayPop(H.heap), keyToIndex |-> k2i]
          ELSE LET lastItem == H.heap[Len(H.heap)]
                   H1 == [heap |-> [ArrayPop(H.heap) EXCEPT ![index + 1] = lastItem],
                          keyToIndex |-> MapSet(k2i, lastItem.key, index)]
               IN MinHeap_bubbleDown(H1, index)

\* remove that pops the array without moving the last item into the gap
MinHeap_remove_dropLast(H, key) ==
  IF ~MapHas(H.keyToIndex, key) THEN H
  ELSE [heap |-> ArrayPop(H.heap), keyToIndex |-> MapDelete(H.keyToIndex, key)]

MinHeap_remove(H, key) ==
  IF ~MapHas(H.keyToIndex, key) THEN H
  ELSE LET index == H.keyToIndex[key]
           k2i == MapDelete(H.keyToIndex, key)
       IN IF index = Len(H.heap) - 1
          THEN [heap |-> ArrayPop(H.heap), keyToIndex |-> k2i]
          ELSE IF Len(H.heap) = 1
          THEN [heap |-> <<>>, keyToIndex |-> k2i]
          ELSE LET lastItem == H.heap[Len(H.heap)]
                   H1 == [heap |-> [ArrayPop(H.heap) EXCEPT ![index + 1] = lastItem],
                          keyToIndex |-> MapSet(k2i, lastItem.key, index)]
               IN IF index > 0
                     /\ HeapAt(H1, index).expiresAt
                          < HeapAt(H1, (index - 1) \div 2).expiresAt
                  THEN MinHeap_bubbleUp(H1, index)
                  ELSE MinHeap_bubbleDown(H1, index)

MinHeap_removeResult(H, key) == MapHas(H.keyToIndex, key)

\* push that appends without removing the key's old occurrence
MinHeap_push_keepOld(H, item) ==
  LET index == Len(H.heap)
      H1 == [heap |-> Append(H.heap, item),
             keyToIndex |-> MapSet(H.keyToIndex, item.key, index)]
  IN MinHeap_bubbleUp(H1, index)

MinHeap_push(H, item) ==
  LET H0 == IF MapHas(H.keyToIndex, item.key)
            THEN MinHeap_remove(H, item.key) ELSE H
      index == Len(H0.heap)
      H1 == [heap |-> Append(H0.heap, item),
             keyToIndex |-> MapSet(H0.keyToIndex, item.key, index)]
  IN MinHeap_bubbleUp(H1, index)

\* peek that looks at the end of the array
MinHeap_peek_last(H) == H.heap[Len(H.heap)]

MinHeap_peek(H) == H.heap[1]

MinHeap_size(H) == Len(H.heap)

\* the heap after pop(); the popped item is MinHeap_peek(H)
MinHeap_pop(H) ==
  IF Len(H.heap) = 0 THEN H
  ELSE IF Len(H.heap) = 1
  THEN [heap |-> <<>>, keyToIndex |-> MapDelete(H.keyToIndex, H.heap[1].key)]
  ELSE LET min == H.heap[1]
           lastItem == H.heap[Len(H.heap)]
           H1 == [heap |-> [ArrayPop(H.heap) EXCEPT ![1] = lastItem],
                  keyToIndex |-> MapSet(MapDelete(H.keyToIndex, min.key),
                                        lastItem.key, 0)]
       IN MinHeap_bubbleDown(H1, 0)

MinHeap_clear(H) == [heap |-> <<>>, keyToIndex |-> EmptyMap]

\* Array.prototype.sort with (a, b) => a.expiresAt - b.expiresAt: stable
RECURSIVE SortInsert(_, _)
SortInsert(sorted, item) ==
  IF sorted = <<>> THEN <<item>>
  ELSE IF sorted[Len(sorted)].expiresAt <= item.expiresAt
  THEN Append(sorted, item)
  ELSE Append(SortInsert(ArrayPop(sorted), item), sorted[Len(sorted)])

RECURSIVE SortByExpiresAt(_)
SortByExpiresAt(s) ==
  IF s = <<>> THEN <<>>
  ELSE SortInsert(SortByExpiresAt(ArrayPop(s)), s[Len(s)])

\* the sequence extractAll() returns; the heap afterwards is MinHeap_clear
MinHeap_extractAll(H) == SortByExpiresAt(H.heap)

HeapKeys(H) == {H.heap[i].key : i \in 1..Len(H.heap)}

\* ----------------------------------------------------------- DoublyLinkedList
\* The list between the two sentinels, head side first, as the sequence of
\* the keys of its nodes.  _lruNodes maps a key to the node added last for it,
\* which is the occurrence nearest to the head.
DoublyLinkedList_new == <<>>

DoublyLinkedList_addToHead(list, key) == <<key>> \o list

FirstIndexOf(list, key) ==
  CHOOSE i \in 1..Len(list) :
    list[i] = key /\ \A j \in 1..(i - 1) : list[j] # key

DoublyLinkedList_removeNode(list, key) ==
  IF \E i \in 1..Len(list) : list[i] = key
  THEN LET i == FirstIndexOf(list, key)
       IN SubSeq(list, 1, i - 1) \o SubSeq(list, i + 1, Len(list))
  ELSE list

\* moveToHead that leaves the node where it is
DoublyLinkedList_moveToHead_stay(list, key) == list

DoublyLinkedList_moveToHead(list, key) ==
  DoublyLinkedList_addToHead(DoublyLinkedList_removeNode(list, key), key)

\* the list after removeTail(); the removed node is list[Len(list)]
DoublyLinkedList_removeTail(list) ==
  IF list = <<>> THEN list ELSE SubSeq(list, 1, Len(list) - 1)

\* ------------------------------------------------------------------ MyCache
\* Values handed to set(): two objects (identified by reference) and one
\* primitive.  An object's stored content is its own name; a clone that its
\* holder has modified has the content Mutated.
Objs == {"o1", "o2"}
Prims == {"p1"}
Values == Objs \cup Prims
Mutated == "mutated"
NullValue == "null"

\* value at which the statistics counters and accessCount stop counting
MaxCount == 2

VARIABLES
  now,             \* Date.now()
  statCap,         \* cap of the counters in this specification (0 or MaxCount)
  options,         \* MyCache._options, with _maxSize and _defaultTTL
  entries,         \* MyCache._entries: key -> [value, expiresAt, accessCount]
  expirationHeap,  \* MyCache._expirationHeap
  lruList,         \* MyCache._lruList
  lruNodes,        \* MyCache._lruNodes (its key set)
  usedKeys,        \* MyCache._usedKeys
  stats,           \* MyCache._stats (the counters)
  cloneCache,      \* MyCache._cloneCache: stored object -> content of its cached clone
  ret,             \* the last call and what it returned
  recency          \* the keys by their last set or successful get, latest first
                   \* (observation only)

cacheVars == <<options, entries, expirationHeap, lruList, lruNodes, usedKeys,
               stats, cloneCache, ret, recency>>

\* what a call returned: value (get), flag (has/delete/updateTTL), count
\* (cleanup), ref (the stored object whose cached clone get handed out)
Ret(op, key, value, flag, count, ref) ==
  [op |-> op, key |-> key, value |-> value, flag |-> flag, count |-> count,
   ref |-> ref]
NoRet == Ret("new", "", NullValue, FALSE, 0, "")

\* counter++ : counting stops at the cap cap (0: the counters stay at 0)
Incr(n, cap) == IF n < cap THEN n + 1 ELSE n
Bump(s, fs, cap) == [f \in DOMAIN s |-> IF f \in fs THEN Incr(s[f], cap) ELSE s[f]]

\* _validateKey: typeof key === 'string' and key.trim() !== ''
StringTrim(key) == IF key \in BlankKeys THEN "" ELSE key

\* _validateKey that compares the key itself with ''
MyCache_validateKey_untrimmed(key) == key \notin NonStringKeys /\ key # ""

MyCache_validateKey(key) == key \notin NonStringKeys /\ StringTrim(key) # ""

\* _validateTTL: null, Infinity or a finite number >= 0
MyCache_validateTTL(ttl) == ttl = Null \/ ttl = Infinity \/ ttl >= 0

\* the latest use of key is now
Touch(r, key) == <<key>> \o SelectSeq(r, LAMBDA k : k # key)

\* the cache object as one value
Cache ==
  [options |-> options, entries |-> entries, expirationHeap |-> expirationHeap,
   lruList |-> lruList, lruNodes |-> lruNodes, usedKeys |-> usedKeys,
   stats |-> stats, cloneCache |-> cloneCache, ret |-> ret, recency |-> recency]

\* the cache object is c after the step
CacheBecomes(c) ==
  /\ options' = c.options
  /\ entries' = c.entries
  /\ expirationHeap' = c.expirationHeap
  /\ lruList' = c.lruList
  /\ lruNodes' = c.lruNodes
  /\ usedKeys' = c.usedKeys
  /\ stats' = c.stats
  /\ cloneCache' = c.cloneCache
  /\ ret' = c.ret
  /\ recency' = c.recency

\* a call of a method of the cache by the application: the cache is what
\* the method leaves
CacheCall(after) ==
  /\ \E c \in {after} : CacheBecomes(c)
  /\ UNCHANGED <<now, statCap>>

\* constructor: empty structures, zeroed counters
MyCache_new(opts) ==
  [options |-> opts,
   entries |-> EmptyMap,
   expirationHeap |-> MinHeap_new,
   lruList |-> DoublyLinkedList_new,
   lruNodes |-> {},
   usedKeys |-> {},
   stats |-> [hits |-> 0, misses |-> 0, sets |-> 0, evictions |-> 0,
              cleanups |-> 0, missesExpired |-> 0, missesCold |-> 0,
              evictionsTTL |-> 0],
   cloneCache |-> EmptyMap,
   ret |-> NoRet,
   recency |-> <<>>]

\* the cache is the one new MyCache(...) gives (_validateTTL(defaultTTL) lets
\* the constructor return)
MyCache_constructor(opts) ==
  /\ MyCache_validateTTL(opts.defaultTTL)
  /\ LET c == MyCache_new(opts)
     IN /\ options = c.options
        /\ entries = c.entries
        /\ expirationHeap = c.expirationHeap
        /\ lruList = c.lruList
        /\ lruNodes = c.lruNodes
        /\ usedKeys = c.usedKeys
        /\ stats = c.stats
        /\ cloneCache = c.cloneCache
        /\ ret = c.ret
        /\ recency = c.recency

\* a validation threw: nothing has been touched
Thrown == Ret("error", "", NullValue, FALSE, 0, "")

MyCache_thrown(c) == [c EXCEPT !.ret = Thrown]

MyCache_throw ==
  /\ ret' = Thrown
  /\ UNCHANGED <<now, statCap, options, entries, expirationHeap, lruList,
                 lruNodes, usedKeys, stats, cloneCache, recency>>

\* `ttl || this._defaultTTL`: 0 and null are falsy; then Date.now() + computedTTL,
\* where null + number is the number
MyCache_computedTTL(ttl, defaultTTL) ==
  IF ttl = Null \/ ttl = 0 THEN defaultTTL ELSE ttl

MyCache_expiresAt(ttl, defaultTTL, t) ==
  LET computedTTL == MyCache_computedTTL(ttl, defaultTTL)
  IN IF computedTTL = Infinity THEN Infinity
     ELSE IF computedTTL = Null THEN t
     ELSE t + computedTTL

\* _removeFromLRU that forgets the node in the side table only
MyCache_removeFromLRU_keepNode(list, nodes, key) ==
  IF key \in nodes
  THEN [list |-> list, nodes |-> nodes \ {key}]
  ELSE [list |-> list, nodes |-> nodes]

\* _removeFromLRU: [list, nodes] without the node of key
MyCache_removeFromLRU(list, nodes, key) ==
  IF key \in nodes
  THEN [list |-> DoublyLinkedList_removeNode(list, key), nodes |-> nodes \ {key}]
  ELSE [list |-> list, nodes |-> nodes]

\* _addToExpirationHeap
MyCache_addToExpirationHeap(H, key, expiresAt) ==
  IF expiresAt = Infinity THEN H ELSE MinHeap_push(H, HeapItem(key, expiresAt))

\* _checkItemExpiry with the comparison turned around
MyCache_checkItemExpiry_reversed(item, t) ==
  IF item.expiresAt = Infinity THEN FALSE ELSE t < item.expiresAt

\* _checkItemExpiry: has the item of key expired at instant t
MyCache_checkItemExpiry(item, t) ==
  IF item.expiresAt = Infinity THEN FALSE ELSE t > item.expiresAt

\* _evictLRU that removes the tail node and leaves its entry in the table
MyCache_evictLRU_keepEntry(es, list, nodes, enableLRU) ==
  IF ~enableLRU \/ DOMAIN es = {} \/ list = <<>>
  THEN [entries |-> es, list |-> list, nodes |-> nodes, evicted |-> FALSE]
  ELSE [entries |-> es,
        list |-> DoublyLinkedList_removeTail(list),
        nodes |-> nodes \ {list[Len(list)]}, evicted |-> TRUE]

\* _evictLRU that takes the node at the head
MyCache_evictLRU_head(es, list, nodes, enableLRU) ==
  IF ~enableLRU \/ DOMAIN es = {} \/ list = <<>>
  THEN [entries |-> es, list |-> list, nodes |-> nodes, evicted |-> FALSE]
  ELSE LET newest == list[1]
       IN [entries |-> MapDelete(es, newest),
           list |-> Tail(list),
           nodes |-> nodes \ {newest}, evicted |-> TRUE]

\* _evictLRU: [entries, list, nodes, evicted]
MyCache_evictLRU(es, list, nodes, enableLRU) ==
  IF ~enableLRU \/ DOMAIN es = {} \/ list = <<>>
  THEN [entries |-> es, list |-> list, nodes |-> nodes, evicted |-> FALSE]
  ELSE LET oldest == list[Len(list)]
       IN [entries |-> MapDelete(es, oldest),
           list |-> DoublyLinkedList_removeTail(list),
           nodes |-> nodes \ {oldest}, evicted |-> TRUE]

\* set(key, value, ttl) at the time t on the cache c: the cache after it
MyCache_setOn(c, key, value, ttl, t, cap) ==
  IF ~MyCache_validateKey(key) \/ ~MyCache_validateTTL(ttl) THEN MyCache_thrown(c) ELSE
  LET expiresAt == MyCache_expiresAt(ttl, c.options.defaultTTL, t)
      existing == MapHas(c.entries, key)
      full == ~existing /\ Cardinality(DOMAIN c.entries) >= c.options.maxSize
      rm == MyCache_removeFromLRU(c.lruList, c.lruNodes, key)
      ev == MyCache_evictLRU(c.entries, c.lruList, c.lruNodes, c.options.enableLRU)
      es1 == IF full THEN ev.entries ELSE c.entries
      list1 == IF existing THEN rm.list ELSE IF full THEN ev.list ELSE c.lruList
      nodes1 == IF existing THEN rm.nodes ELSE IF full THEN ev.nodes ELSE c.lruNodes
      counted == IF full /\ ev.evicted THEN {"sets", "evictions"} ELSE {"sets"}
      item == [value |-> value, expiresAt |-> expiresAt, accessCount |-> 0]
  IN [c EXCEPT
        !.entries = MapSet(es1, key, item),
        !.usedKeys = c.usedKeys \cup {key},
        !.expirationHeap = IF expiresAt # Infinity
                           THEN MyCache_addToExpirationHeap(c.expirationHeap, key,
                                                            expiresAt)
                           ELSE c.expirationHeap,
        !.lruList = IF c.options.enableLRU
                    THEN DoublyLinkedList_addToHead(list1, key) ELSE list1,
        !.lruNodes = IF c.options.enableLRU THEN nodes1 \cup {key} ELSE nodes1,
        !.stats = Bump(c.stats, counted, cap),
        !.ret = Ret("set", key, NullValue, FALSE, 0, ""),
        !.recency = Touch(c.recency, key)]

MyCache_set(key, value, ttl) ==
  CacheCall(MyCache_setOn(Cache, key, value, ttl, now, statCap))

\* _optimizedClone / _deepClone: the content get returns for a stored value
MyCache_cloneContent(value, cc, weak) ==
  IF weak /\ value \in Objs /\ MapHas(cc, value) THEN cc[value] ELSE value

\* _optimizedClone: the clone cache after the call
MyCache_cloneCacheAfter(value, cc, weak) ==
  IF weak /\ value \in Objs /\ ~MapHas(cc, value) THEN MapSet(cc, value, value) ELSE cc

\* get(key) at the time t on the cache c: the cache after it
MyCache_getOn(c, key, t, cap) ==
  IF ~MyCache_validateKey(key) THEN MyCache_thrown(c) ELSE
  LET isColdMiss == key \notin c.usedKeys
      c1 == [c EXCEPT !.usedKeys = c.usedKeys \cup {key}]
  IN IF ~MapHas(c.entries, key)
     THEN LET counted == IF isColdMiss THEN {"misses", "missesCold"} ELSE {"misses"}
          IN [c1 EXCEPT !.stats = Bump(c.stats, counted, cap),
                        !.ret = Ret("get", key, NullValue, FALSE, 0, "")]
     ELSE IF MyCache_checkItemExpiry(c.entries[key], t)
     THEN LET rm == MyCache_removeFromLRU(c.lruList, c.lruNodes, key)
              counted == {"evictionsTTL", "misses", "missesExpired"}
          IN [c1 EXCEPT !.entries = MapDelete(c.entries, key),
                        !.lruList = rm.list,
                        !.lruNodes = rm.nodes,
                        !.stats = Bump(c.stats, counted, cap),
                        !.ret = Ret("get", key, NullValue, FALSE, 0, "")]
     ELSE LET item == c.entries[key]
              weak == c.options.enableWeakOptimization
          IN [c1 EXCEPT
                !.lruList = IF c.options.enableLRU /\ key \in c.lruNodes
                            THEN DoublyLinkedList_moveToHead(c.lruList, key)
                            ELSE c.lruList,
                !.entries = MapSet(c.entries, key,
                              [item EXCEPT !.accessCount = Incr(item.accessCount, cap)]),
                !.stats = Bump(c.stats, {"hits"}, cap),
                !.cloneCache = MyCache_cloneCacheAfter(item.value, c.cloneCache, weak),
                !.ret = Ret("get", key,
                            MyCache_cloneContent(item.value, c.cloneCache, weak),
                            TRUE, 0,
                            IF weak /\ item.value \in Objs THEN item.value ELSE ""),
                !.recency = Touch(c.recency, key)]

MyCache_get(key) == CacheCall(MyCache_getOn(Cache, key, now, statCap))

MyCache_has(key) ==
  IF ~MyCache_validateKey(key) THEN MyCache_throw ELSE
  /\ IF ~MapHas(entries, key)
     THEN /\ ret' = Ret("has", key, NullValue, FALSE, 0, "")
          /\ UNCHANGED <<entries, lruList, lruNodes, stats>>
     ELSE IF MyCache_checkItemExpiry(entries[key], now)
     THEN LET rm == MyCache_removeFromLRU(lruList, lruNodes, key)
          IN /\ entries' = MapDelete(entries, key)
             /\ lruList' = rm.list
             /\ lruNodes' = rm.nodes
             /\ stats' = Bump(stats, {"evictionsTTL"}, statCap)
             /\ ret' = Ret("has", key, NullValue, FALSE, 0, "")
     ELSE /\ ret' = Ret("has", key, NullValue, TRUE, 0, "")
          /\ UNCHANGED <<entries, lruList, lruNodes, stats>>
  /\ UNCHANGED <<now, statCap, options, expirationHeap, usedKeys, cloneCache,
                 recency>>

\* delete(key) on the cache c: the cache after it
MyCache_deleteOn(c, key) ==
  IF ~MyCache_validateKey(key) THEN MyCache_thrown(c) ELSE
  IF ~MapHas(c.entries, key)
  THEN [c EXCEPT !.ret = Ret("delete", key, NullValue, FALSE, 0, "")]
  ELSE LET rm == MyCache_removeFromLRU(c.lruList, c.lruNodes, key)
           value == c.entries[key].value
       IN [c EXCEPT
             !.cloneCache = IF value \in Objs /\ MapHas(c.cloneCache, value)
                            THEN MapDelete(c.cloneCache, value) ELSE c.cloneCache,
             !.entries = MapDelete(c.entries, key),
             !.lruList = rm.list,
             !.lruNodes = rm.nodes,
             !.ret = Ret("delete", key, NullValue, TRUE, 0, "")]

MyCache_delete(key) == CacheCall(MyCache_deleteOn(Cache, key))

\* the while loop of cleanup() on [heap, entries, list, nodes, count]
RECURSIVE MyCache_cleanupLoop(_, _)
MyCache_cleanupLoop(c, t) ==
  IF MinHeap_size(c.heap) = 0 THEN c
  ELSE LET next == MinHeap_peek(c.heap)
       IN IF next.expiresAt > t THEN c
          ELSE LET H1 == MinHeap_pop(c.heap)
                   rm == MyCache_removeFromLRU(c.list, c.nodes, next.key)
               IN IF MapHas(c.entries, next.key)
                  THEN MyCache_cleanupLoop(
                         [heap |-> H1, entries |-> MapDelete(c.entries, next.key),
                          list |-> rm.list, nodes |-> rm.nodes,
                          count |-> c.count + 1], t)
                  ELSE MyCache_cleanupLoop([c EXCEPT !.heap = H1], t)

\* cleanup() at the time t on the cache c: the cache after it
MyCache_cleanupOn(c, t, cap) ==
  LET l == MyCache_cleanupLoop(
             [heap |-> c.expirationHeap, entries |-> c.entries, list |-> c.lruList,
              nodes |-> c.lruNodes, count |-> 0], t)
  IN [c EXCEPT !.expirationHeap = l.heap,
               !.entries = l.entries,
               !.lruList = l.list,
               !.lruNodes = l.nodes,
               !.stats = Bump(c.stats, {"cleanups"}, cap),
               !.ret = Ret("cleanup", "", NullValue, FALSE, l.count, "")]

MyCache_cleanup == CacheCall(MyCache_cleanupOn(Cache, now, statCap))

\* clear() on the cache c: the cache after it
MyCache_clearOn(c) ==
  [c EXCEPT !.entries = EmptyMap,
            !.lruNodes = {},
            !.lruList = DoublyLinkedList_new,
            !.expirationHeap = MinHeap_clear(c.expirationHeap),
            !.cloneCache = EmptyMap,
            !.ret = Ret("clear", "", NullValue, FALSE, 0, "")]

MyCache_clear == CacheCall(MyCache_clearOn(Cache))

\* destroy(): clear()
MyCache_destroyOn(c) == MyCache_clearOn(c)

\* size(): the number of entries of the table, expired ones included
MyCache_size(c) == Cardinality(DOMAIN c.entries)

MyCache_updateTTL(key, ttl) ==
  IF ~MyCache_validateKey(key) \/ ~MyCache_validateTTL(ttl) THEN MyCache_throw ELSE
  /\ IF ~MapHas(entries, key)
     THEN /\ ret' = Ret("updateTTL", key, NullValue, FALSE, 0, "")
          /\ UNCHANGED <<entries, lruList, lruNodes, stats, expirationHeap>>
     ELSE IF MyCache_checkItemExpiry(entries[key], now)
     THEN LET rm == MyCache_removeFromLRU(lruList, lruNodes, key)
          IN /\ entries' = MapDelete(entries, key)
             /\ lruList' = rm.list
             /\ lruNodes' = rm.nodes
             /\ stats' = Bump(stats, {"evictionsTTL"}, statCap)
             /\ ret' = Ret("updateTTL", key, NullValue, FALSE, 0, "")
             /\ UNCHANGED expirationHeap
     ELSE LET newExpiresAt == IF ttl = Infinity THEN Infinity
                              ELSE IF ttl = Null THEN now ELSE now + ttl
          IN /\ entries' = MapSet(entries, key,
                             [entries[key] EXCEPT !.expiresAt = newExpiresAt])
             /\ expirationHeap' =
                  IF newExpiresAt # Infinity
                  THEN MyCache_addToExpirationHeap(expirationHeap, key, newExpiresAt)
                  ELSE expirationHeap
             /\ ret' = Ret("updateTTL", key, NullValue, TRUE, 0, "")
             /\ UNCHANGED <<lruList, lruNodes, stats>>
  /\ UNCHANGED <<now, statCap, options, usedKeys, cloneCache, recency>>

\* getTTL: null without an entry, Infinity, or the time left (not below 0);
\* the entry is read only
MyCache_getTTL(key) ==
  IF ~MyCache_validateKey(key) THEN MyCache_throw ELSE
  /\ ret' = Ret("getTTL", key, NullValue, MapHas(entries, key),
                IF ~MapHas(entries, key) THEN Null
                ELSE IF entries[key].expiresAt = Infinity THEN Infinity
                ELSE Max(0, entries[key].expiresAt - now), "")
  /\ UNCHANGED <<now, statCap, options, entries, expirationHeap, lruList,
                 lruNodes, usedKeys, stats, cloneCache, recency>>

\* the caller modifies the object the last get returned; only a cached clone
\* handed out by reference is state of the cache
MutateReturned ==
  /\ ret.op = "get"
  /\ ret.ref # ""
  /\ MapHas(cloneCache, ret.ref)
  /\ cloneCache[ret.ref] # Mutated
  /\ cloneCache' = MapSet(cloneCache, ret.ref, Mutated)
  /\ UNCHANGED <<now, statCap, options, entries, expirationHeap, lruList, lruNodes,
                 usedKeys, stats, ret, recency>>

\* ----------------------------------------------------------------- Debounce
\* a Debounce object; set = FALSE stands for task.debouncer === null
Debounce_new(wait) == [set |-> TRUE, wait |-> wait, lastCall |-> 0]
NoDebouncer == [set |-> FALSE, wait |-> 0, lastCall |-> 0]

\* canCall(): the answer, and the object after the call
Debounce_canCall(d, t) == t - d.lastCall >= d.wait
Debounce_afterCanCall(d, t) ==
  IF Debounce_canCall(d, t) THEN [d EXCEPT !.lastCall = t] ELSE d

Debounce_reset(d) == [d EXCEPT !.lastCall = 0]

\* setWait(newWait) with a number that is not negative
Debounce_setWait(d, newWait) == [d EXCEPT !.wait = newWait]

\* ------------------------------------------------------------ ScheduledTask
\* `options.x || default` of the constructor: 0 and null are falsy
ScheduledTask_new(interval, opts, t) ==
  [interval |-> interval,
   nextExecution |-> t + interval,
   lastExecution |-> Null,
   executionCount |-> 0,
   isActive |-> TRUE,
   priority |-> opts.priority,
   isPaused |-> FALSE,
   maxExecutions |-> IF opts.maxExecutions = Null \/ opts.maxExecutions = 0
                     THEN Infinity ELSE opts.maxExecutions,
   errorCount |-> 0,
   debounceTime |-> IF opts.debounce = 0 THEN Null ELSE opts.debounce,
   debouncer |-> IF opts.debounce = Null \/ opts.debounce = 0
                 THEN NoDebouncer ELSE Debounce_new(opts.debounce),
   invokedAt |-> Null,   \* instant fn of a task configured with debounce was
                         \* last called (observation only)
   onError |-> opts.onError,   \* options.onError was supplied
   onErrorCalls |-> 0,         \* calls of onError (observation only)
   fn |-> opts.fn]             \* what fn does before its first await

ScheduledTask_shouldExecute(task, t) ==
  IF ~task.isActive \/ t < task.nextExecution THEN FALSE
  ELSE IF task.debouncer.set /\ ~Debounce_canCall(task.debouncer, t) THEN FALSE
  ELSE TRUE

\* the task after shouldExecute(): canCall() records the instant when it allows
ScheduledTask_afterShouldExecute(task, t) ==
  IF ~task.isActive \/ t < task.nextExecution THEN task
  ELSE IF task.debouncer.set
  THEN [task EXCEPT !.debouncer = Debounce_afterCanCall(task.debouncer, t)]
  ELSE task

\* execute() up to the call of fn: the debouncer is reset
ScheduledTask_executeStart(task, t) ==
  [task EXCEPT !.debouncer = IF task.debouncer.set
                             THEN Debounce_reset(task.debouncer)
                             ELSE task.debouncer,
               !.invokedAt = IF task.debounceTime # Null THEN t
                             ELSE task.invokedAt]

\* executionCount++ : exact up to one past a finite maxExecutions, otherwise a
\* statistic that stops at cap
ScheduledTask_countCap(task, cap) ==
  IF task.maxExecutions = Infinity THEN cap ELSE task.maxExecutions + 1

ScheduledTask_scheduleNext(task, t, cap) ==
  LET count == Incr(task.executionCount, ScheduledTask_countCap(task, cap))
  IN [task EXCEPT !.lastExecution = t,
                  !.nextExecution = t + task.interval,
                  !.executionCount = count,
                  !.isActive = IF count >= task.maxExecutions
                               THEN FALSE ELSE task.isActive]

\* execute() that schedules the next run on success only
ScheduledTask_executeEnd_successOnly(task, ok, t, cap) ==
  IF ok THEN ScheduledTask_scheduleNext(task, t, cap)
  ELSE [task EXCEPT !.onErrorCalls = IF task.onError THEN Incr(@, cap) ELSE @,
                    !.errorCount = Incr(task.errorCount, cap)]

\* execute() after fn settled: on a throw onError is called if supplied, then
\* errorCount++, then scheduleNext() as on success
ScheduledTask_executeEnd(task, ok, t, cap) ==
  ScheduledTask_scheduleNext(
    IF ok THEN task
    ELSE [task EXCEPT !.onErrorCalls = IF task.onError THEN Incr(@, cap) ELSE @,
                      !.errorCount = Incr(task.errorCount, cap)],
    t, cap)

ScheduledTask_toHeapItem(id, task) == HeapItem(id, task.nextExecution)

\* setDebounce(debounceTime): null and 0 take the debouncer off, a number
\* changes the wait of the debouncer the task has or gives it a new one
ScheduledTask_setDebounce(task, debounceTime) ==
  [task EXCEPT !.debounceTime = debounceTime,
               !.debouncer = IF debounceTime # Null /\ debounceTime # 0
                             THEN IF task.debouncer.set
                                  THEN Debounce_setWait(task.debouncer, debounceTime)
                                  ELSE Debounce_new(debounceTime)
                             ELSE NoDebouncer]

ScheduledTask_resetDebounce(task) ==
  IF task.debouncer.set
  THEN [task EXCEPT !.debouncer = Debounce_reset(task.debouncer)]
  ELSE task

\* ---------------------------------------------------------------- TaskQueue
VARIABLES
  queue,     \* the TaskQueue object (its fields)
  inflight,  \* the executions whose fn has not settled: execution -> how many
  tick,      \* what the tick that just ran found and dispatched (NoTick
             \* after any other step of the queue); afterStop are the tasks it
             \* started after a fn had stopped the queue
  jobs,      \* the promise jobs of the queue that wait to run, first in
             \* first out: the continuations after an await and the
             \* .then(scheduleNextTick) of a tick
  cleanupFrequency, \* this._cleanupFrequency of every CacheManager
  caches,    \* this._caches of every CacheManager: name -> the instance held
  persistent, \* the PersistentCache objects made so far
  storage,   \* the file of MinimalPersistence under every storage key
  managed    \* the MyCache objects createCache has made, in the order of
             \* their making: object i is managed[i], object 0 is the cache of
             \* the variables above, which the application made itself

queueVars == <<queue, inflight, tick, jobs, cleanupFrequency, caches,
               persistent, storage, managed>>

\* an execution in flight: the task id, whether its task object is still the
\* one in the table, and for executeNow the debouncer to put back
Exec(id, live, viaNow, saved) ==
  [id |-> id, live |-> live, viaNow |-> viaNow, saved |-> saved]
DeadExec(id) == Exec(id, FALSE, FALSE, NoDebouncer)
\* the execution once its task object has left the table
Dead(e) == Exec(e.id, FALSE, e.viaNow, NoDebouncer)
NoExec == Exec("", FALSE, FALSE, NoDebouncer)

\* a promise job: "execute" is the rest of ScheduledTask.execute after the
\* await of fn, "executeTask" the rest of _executeTask after the await of
\* execute(), "executeNow" the finally block of executeNow after the await of
\* _executeTask, "scheduleNextTick" the callback of _processTasks().then
Job(kind, e, ok) == [kind |-> kind, e |-> e, ok |-> ok]
TickJob == Job("scheduleNextTick", NoExec, TRUE)

\* the executions that have a job waiting
ExecJobs(js) == Cardinality({i \in 1..Len(js) : js[i].kind # "scheduleNextTick"})

BagCount(b, e) == IF e \in DOMAIN b THEN b[e] ELSE 0
BagAdd(b, e) == MapSet(b, e, BagCount(b, e) + 1)
BagRemove(b, e) == IF b[e] = 1 THEN MapDelete(b, e) ELSE MapSet(b, e, b[e] - 1)
RECURSIVE BagSize(_)
BagSize(b) ==
  IF DOMAIN b = {} THEN 0
  ELSE LET e == CHOOSE x \in DOMAIN b : TRUE
       IN b[e] + BagSize(MapDelete(b, e))

\* the executions of the ids lose their task object (replaced or removed)
RECURSIVE Detach(_, _)
Detach(b, ids) ==
  IF \E e \in DOMAIN b : e.id \in ids /\ e.live
  THEN LET e == CHOOSE x \in DOMAIN b : x.id \in ids /\ x.live
           rest == MapDelete(b, e)
       IN Detach(MapSet(rest, Dead(e), BagCount(rest, Dead(e)) + b[e]), ids)
  ELSE b

\* the same for the executions whose jobs wait
DetachJobs(js, ids) ==
  [i \in 1..Len(js) |->
     IF js[i].kind # "scheduleNextTick" /\ js[i].e.id \in ids /\ js[i].e.live
     THEN [js[i] EXCEPT !.e = Dead(js[i].e)]
     ELSE js[i]]

NoTimer == [handle |-> FALSE, pending |-> FALSE, at |-> 0]
NoTick == [ran |-> FALSE, ready |-> <<>>, skipped |-> {},
           started |-> {}, executingBefore |-> 0, afterStop |-> {}]

\* constructor
TaskQueue_new(opts) ==
  [tasks |-> EmptyMap,
   executionHeap |-> MinHeap_new,
   isRunning |-> FALSE,
   dynamicTimer |-> NoTimer,
   minTickInterval |-> opts.minTickInterval,
   maxTickInterval |-> opts.maxTickInterval,
   maxConcurrent |-> opts.maxConcurrent,
   currentlyExecuting |-> {},
   stats |-> [totalExecutions |-> 0, totalErrors |-> 0,
              totalSkippedByDebounce |-> 0],
   strayTimers |-> 0,           \* timers pending that no field refers to
   destroyed |-> FALSE,         \* destroy() ran: stats and logger are null
   unhandledRejections |-> 0]   \* rejected promises nobody handles

\* the literal ceiling of calculateNextTickDelay
TickCeiling == 5000

TaskQueue_calculateNextTickDelay(Q, t) ==
  IF MinHeap_size(Q.executionHeap) = 0 THEN Q.minTickInterval
  ELSE LET nextItem == MinHeap_peek(Q.executionHeap)
           timeUntilNext == Max(0, nextItem.expiresAt - t)
       IN Max(Q.minTickInterval, Min(timeUntilNext, TickCeiling))

\* clearTimeout that cancels nothing
ClearTimeout_noop(Q) == Q

\* clearTimeout(this.dynamicTimer): the timer the field refers to is cancelled
ClearTimeout(Q) == [Q EXCEPT !.dynamicTimer.pending = FALSE]

\* this.dynamicTimer = timer: a timer still pending that the field referred
\* to stays pending in the runtime, with nothing left to cancel it
SetDynamicTimer(Q, timer) ==
  [Q EXCEPT !.strayTimers = IF Q.dynamicTimer.pending THEN @ + 1 ELSE @,
            !.dynamicTimer = timer]

TaskQueue_scheduleNextTick(Q, t) ==
  IF ~Q.isRunning THEN Q
  ELSE LET Q1 == IF Q.dynamicTimer.handle THEN ClearTimeout(Q) ELSE Q
       IN SetDynamicTimer(Q1, [handle |-> TRUE, pending |-> TRUE,
                               at |-> t + TaskQueue_calculateNextTickDelay(Q1, t)])

TaskQueue_start(Q, t) ==
  IF Q.isRunning THEN Q
  ELSE TaskQueue_scheduleNextTick([Q EXCEPT !.isRunning = TRUE], t)

TaskQueue_stop(Q) ==
  IF ~Q.isRunning THEN Q
  ELSE LET Q1 == [Q EXCEPT !.isRunning = FALSE]
       IN IF Q1.dynamicTimer.handle
          THEN SetDynamicTimer(ClearTimeout(Q1), NoTimer)
          ELSE Q1

TaskQueue_removeFromHeap(Q, id) ==
  [Q EXCEPT !.executionHeap = MinHeap_remove(Q.executionHeap, id)]

TaskQueue_addTask(Q, id, interval, opts, t) ==
  LET Q0 == IF MapHas(Q.tasks, id) THEN TaskQueue_removeFromHeap(Q, id) ELSE Q
      task == ScheduledTask_new(interval, opts, t)
      Q1 == [Q0 EXCEPT !.tasks = MapSet(Q0.tasks, id, task),
                       !.executionHeap =
                          MinHeap_push(Q0.executionHeap,
                                       ScheduledTask_toHeapItem(id, task))]
  IN IF ~Q1.isRunning THEN TaskQueue_start(Q1, t) ELSE Q1

\* removeTask without its removeFromHeap(id)
TaskQueue_removeTask_keepHeapItem(Q, id) ==
  IF ~MapHas(Q.tasks, id) THEN Q
  ELSE LET Q1 == [Q EXCEPT !.tasks = MapDelete(Q.tasks, id)]
       IN IF DOMAIN Q1.tasks = {} THEN TaskQueue_stop(Q1) ELSE Q1

TaskQueue_removeTask(Q, id) ==
  IF ~MapHas(Q.tasks, id) THEN Q
  ELSE LET Q1 == TaskQueue_removeFromHeap(
                   [Q EXCEPT !.tasks = MapDelete(Q.tasks, id)], id)
       IN IF DOMAIN Q1.tasks = {} THEN TaskQueue_stop(Q1) ELSE Q1

TaskQueue_pauseTask(Q, id) ==
  IF MapHas(Q.tasks, id) /\ ~Q.tasks[id].isPaused
  THEN [Q EXCEPT !.tasks[id].isPaused = TRUE] ELSE Q

TaskQueue_resumeTask(Q, id) ==
  IF MapHas(Q.tasks, id) /\ Q.tasks[id].isPaused
  THEN [Q EXCEPT !.tasks[id].isPaused = FALSE] ELSE Q

\* getStatus(): taskDetails asks debouncer.canCall() of every task that has a
\* debouncer (in _getTaskStatus, in debounce.canCall and in
\* _getDebounceTimeRemaining); the first call that allows records the instant
TaskQueue_getStatus(Q, t) ==
  [Q EXCEPT !.tasks =
     [id \in DOMAIN Q.tasks |->
        IF Q.tasks[id].debouncer.set
        THEN [Q.tasks[id] EXCEPT !.debouncer = Debounce_afterCanCall(@, t)]
        ELSE Q.tasks[id]]]

TaskQueue_clear(Q) ==
  TaskQueue_stop([Q EXCEPT !.tasks = EmptyMap,
                           !.executionHeap = MinHeap_clear(Q.executionHeap),
                           !.currentlyExecuting = {}])

\* destroy(): clear(), then stats = null and logger = null
TaskQueue_destroy(Q) == [TaskQueue_clear(Q) EXCEPT !.destroyed = TRUE]

\* setTaskDebounce(id, debounceTime) and resetTaskDebounce(id)
TaskQueue_setTaskDebounce(Q, id, debounceTime) ==
  IF MapHas(Q.tasks, id)
  THEN [Q EXCEPT !.tasks[id] = ScheduledTask_setDebounce(Q.tasks[id], debounceTime)]
  ELSE Q

TaskQueue_resetTaskDebounce(Q, id) ==
  IF MapHas(Q.tasks, id)
  THEN [Q EXCEPT !.tasks[id] = ScheduledTask_resetDebounce(Q.tasks[id])]
  ELSE Q

\* what the call of fn gives: a fn of kind "run", "stop" or "restart" is
\* async and returns a promise that is still pending ("stop" has called
\* queue.stop() before its first await, "restart" queue.stop() and then
\* queue.start()), a fn of kind "throw" is not async and throws, every other
\* fn is not async and returns undefined
FnPending(fn) == fn \in {"run", "stop", "restart"}

\* _executeTask up to its first await, for the task object of the table;
\* viaNow and saved are executeNow's: [queue, inflight, jobs, started].  A
\* pending fn leaves the execution in flight.  A throw is caught by the
\* catch block of execute() at once (onError, errorCount++, scheduleNext())
\* and the await of the rejected promise queues the rest of _executeTask.  A
\* returned value queues the rest of execute().
TaskQueue_executeTaskStart(Q, fl, js, id, viaNow, saved, t, cap) ==
  IF id \in Q.currentlyExecuting
  THEN [queue |-> Q, inflight |-> fl, jobs |-> js, started |-> FALSE]
  ELSE LET fn == Q.tasks[id].fn
           e == Exec(id, TRUE, viaNow, saved)
           Q1 == [Q EXCEPT !.currentlyExecuting = Q.currentlyExecuting \cup {id},
                           !.tasks[id] = ScheduledTask_executeStart(Q.tasks[id], t)]
       IN IF FnPending(fn)
          THEN [queue |-> IF fn = "stop" THEN TaskQueue_stop(Q1)
                          ELSE IF fn = "restart"
                          THEN TaskQueue_start(TaskQueue_stop(Q1), t)
                          ELSE Q1,
                inflight |-> BagAdd(fl, e), jobs |-> js, started |-> TRUE]
          ELSE IF fn = "throw"
          THEN [queue |-> [Q1 EXCEPT !.tasks[id] =
                             ScheduledTask_executeEnd(Q1.tasks[id], FALSE, t, cap)],
                inflight |-> fl,
                jobs |-> Append(js, Job("executeTask", e, FALSE)),
                started |-> TRUE]
          ELSE [queue |-> Q1, inflight |-> fl,
                jobs |-> Append(js, Job("execute", e, TRUE)),
                started |-> TRUE]

\* executeNow up to its await: the debouncer is taken off the task, then
\* _executeTask; when the id is executing already _executeTask returns at
\* once and the await queues the finally block
TaskQueue_executeNow(Q, fl, js, id, t, cap) ==
  LET saved == Q.tasks[id].debouncer
      Q0 == [Q EXCEPT !.tasks[id].debouncer = NoDebouncer]
  IN IF id \in Q.currentlyExecuting
     THEN [queue |-> Q0, inflight |-> fl,
           jobs |-> Append(js, Job("executeNow", Exec(id, TRUE, TRUE, saved), TRUE)),
           started |-> FALSE]
     ELSE TaskQueue_executeTaskStart(Q0, fl, js, id, TRUE, saved, t, cap)

\* the rest of execute() once fn has settled, on the task object of the
\* execution (an object that has left the table is out of sight)
TaskQueue_executeSettled(Q, e, ok, t, cap) ==
  IF e.live /\ MapHas(Q.tasks, e.id)
  THEN [Q EXCEPT !.tasks[e.id] = ScheduledTask_executeEnd(Q.tasks[e.id], ok, t, cap)]
  ELSE Q

\* _updateStats (the counters)
TaskQueue_updateStats(st, wasError, cap) ==
  [st EXCEPT !.totalExecutions = Incr(st.totalExecutions, cap),
             !.totalErrors = IF wasError THEN Incr(st.totalErrors, cap)
                             ELSE st.totalErrors]

\* _executeTask that pushes a heap item for the id once execute() has settled
TaskQueue_executeTaskEnd_reinsert(Q, e, ok, t, cap) ==
  [Q EXCEPT !.stats = TaskQueue_updateStats(Q.stats, ~ok, cap),
            !.currentlyExecuting = Q.currentlyExecuting \ {e.id},
            !.executionHeap = MinHeap_push(Q.executionHeap, HeapItem(e.id, t))]

\* the rest of _executeTask once execute() has settled
TaskQueue_executeTaskEnd(Q, e, ok, t, cap) ==
  IF Q.destroyed
  \* this.stats is null: _updateStats throws a TypeError in the try block
  \* and again in the catch block, the finally block runs and the promise
  \* of _executeTask is rejected; _processTasks has dropped that promise,
  \* executeNow hands the rejection to its caller
  THEN [Q EXCEPT !.currentlyExecuting = Q.currentlyExecuting \ {e.id},
                 !.unhandledRejections = IF e.viaNow THEN @ ELSE @ + 1]
  ELSE [Q EXCEPT !.stats = TaskQueue_updateStats(Q.stats, ~ok, cap),
                 !.currentlyExecuting = Q.currentlyExecuting \ {e.id}]

\* the finally block of executeNow: the saved debouncer goes back on the
\* task object
TaskQueue_executeNowEnd(Q, e) ==
  IF e.live /\ MapHas(Q.tasks, e.id)
  THEN [Q EXCEPT !.tasks[e.id].debouncer = e.saved]
  ELSE Q

\* one promise job runs: [queue, then], then being the job it queues
TaskQueue_runJob(Q, j, t, cap) ==
  IF j.kind = "execute"
  THEN [queue |-> TaskQueue_executeSettled(Q, j.e, j.ok, t, cap),
        then |-> <<Job("executeTask", j.e, j.ok)>>]
  ELSE IF j.kind = "executeTask"
  THEN [queue |-> TaskQueue_executeTaskEnd(Q, j.e, j.ok, t, cap),
        then |-> IF j.e.viaNow THEN <<Job("executeNow", j.e, j.ok)>> ELSE <<>>]
  ELSE IF j.kind = "executeNow"
  THEN [queue |-> TaskQueue_executeNowEnd(Q, j.e), then |-> <<>>]
  ELSE [queue |-> TaskQueue_scheduleNextTick(Q, t), then |-> <<>>]

\* the for loop of _processTasks over the extracted items:
\* [tasks, reinsert, ready, skipped]
RECURSIVE TaskQueue_triage(_, _, _)
TaskQueue_triage(acc, items, t) ==
  IF items = <<>> THEN acc
  ELSE LET item == Head(items)
           id == item.key
       IN IF ~MapHas(acc.tasks, id) \/ ~acc.tasks[id].isActive
          THEN TaskQueue_triage(acc, Tail(items), t)
          ELSE IF item.expiresAt <= t
          THEN LET task == acc.tasks[id]
                   after == MapSet(acc.tasks, id,
                                   ScheduledTask_afterShouldExecute(task, t))
               IN IF ScheduledTask_shouldExecute(task, t)
                  THEN TaskQueue_triage(
                         [acc EXCEPT !.tasks = after,
                                     !.ready = Append(acc.ready, id)],
                         Tail(items), t)
                  ELSE TaskQueue_triage(
                         [acc EXCEPT !.tasks = after,
                                     !.skipped = Append(acc.skipped, id),
                                     !.reinsert = Append(acc.reinsert, id)],
                         Tail(items), t)
          ELSE TaskQueue_triage(
                 [acc EXCEPT !.reinsert = Append(acc.reinsert, id)],
                 Tail(items), t)

\* tasksToReinsert.forEach: push of every task that is active
RECURSIVE TaskQueue_rebuild(_, _, _)
TaskQueue_rebuild(H, ids, tasks) ==
  IF ids = <<>> THEN H
  ELSE TaskQueue_rebuild(
         IF tasks[Head(ids)].isActive
         THEN MinHeap_push(H, ScheduledTask_toHeapItem(Head(ids), tasks[Head(ids)]))
         ELSE H,
         Tail(ids), tasks)

\* readyTasks left in the order of extraction
SortByPriority_asExtracted(ids, tasks) == ids

\* readyTasks.sort((a, b) => b.priority - a.priority): stable, descending
RECURSIVE PriorityInsert(_, _, _)
PriorityInsert(sorted, id, tasks) ==
  IF sorted = <<>> THEN <<id>>
  ELSE IF tasks[sorted[Len(sorted)]].priority >= tasks[id].priority
  THEN Append(sorted, id)
  ELSE Append(PriorityInsert(ArrayPop(sorted), id, tasks), sorted[Len(sorted)])

RECURSIVE SortByPriority(_, _)
SortByPriority(ids, tasks) ==
  IF ids = <<>> THEN <<>>
  ELSE PriorityInsert(SortByPriority(ArrayPop(ids), tasks), ids[Len(ids)], tasks)

\* Array.prototype.slice(0, end): a negative end counts from the end
ArraySlice0(s, end) ==
  IF end >= 0 THEN SubSeq(s, 1, Min(end, Len(s)))
  ELSE SubSeq(s, 1, Max(Len(s) + end, 0))

\* for (const task of tasksToExecute) this._executeTask(task)
RECURSIVE TaskQueue_dispatch(_, _, _, _)
TaskQueue_dispatch(r, ids, t, cap) ==
  IF ids = <<>> THEN r
  ELSE LET x == TaskQueue_executeTaskStart(r.queue, r.inflight, r.jobs, Head(ids),
                                             FALSE, NoDebouncer, t, cap)
       IN TaskQueue_dispatch(
            [queue |-> x.queue, inflight |-> x.inflight, jobs |-> x.jobs,
             started |-> IF x.started THEN r.started \cup {Head(ids)}
                         ELSE r.started,
             called |-> IF x.started
                        THEN Append(r.called, r.queue.tasks[Head(ids)].fn)
                        ELSE r.called,
             afterStop |-> IF x.started /\ ~r.queue.isRunning
                           THEN r.afterStop \cup {Head(ids)}
                           ELSE r.afterStop],
            Tail(ids), t, cap)

\* _cleanupInactiveTasks: removeTask of every inactive task
RECURSIVE TaskQueue_cleanupInactiveTasks(_)
TaskQueue_cleanupInactiveTasks(Q) ==
  IF \E id \in DOMAIN Q.tasks : ~Q.tasks[id].isActive
  THEN LET id == CHOOSE x \in DOMAIN Q.tasks : ~Q.tasks[x].isActive
       IN TaskQueue_cleanupInactiveTasks(TaskQueue_removeTask(Q, id))
  ELSE Q

\* _processTasks: [queue, inflight, jobs, called, tick], called the fns it
\* has called, in the order of the calls
TaskQueue_processTasks(Q, fl, js, t, cap) ==
  IF DOMAIN Q.tasks = {}
  THEN [queue |-> TaskQueue_stop(Q), inflight |-> fl, jobs |-> js,
        called |-> <<>>,
        tick |-> [NoTick EXCEPT !.ran = TRUE,
                                !.executingBefore = Cardinality(Q.currentlyExecuting)]]
  ELSE LET allItems == MinHeap_extractAll(Q.executionHeap)
           acc == TaskQueue_triage(
                    [tasks |-> Q.tasks, reinsert |-> <<>>, ready |-> <<>>,
                     skipped |-> <<>>], allItems, t)
           heap1 == TaskQueue_rebuild(MinHeap_clear(Q.executionHeap),
                                      acc.reinsert \o acc.ready, acc.tasks)
           readyTasks == SortByPriority(acc.ready, acc.tasks)
           availableSlots == Q.maxConcurrent - Cardinality(Q.currentlyExecuting)
           tasksToExecute == ArraySlice0(readyTasks, availableSlots)
           Q1 == [Q EXCEPT !.tasks = acc.tasks,
                           !.executionHeap = heap1,
                           !.stats.totalSkippedByDebounce =
                              Min(Max(@, cap), @ + Len(acc.skipped))]
           d == TaskQueue_dispatch(
                  [queue |-> Q1, inflight |-> fl, jobs |-> js, started |-> {},
                   called |-> <<>>, afterStop |-> {}],
                  tasksToExecute, t, cap)
           Q2 == TaskQueue_cleanupInactiveTasks(d.queue)
           gone == DOMAIN d.queue.tasks \ DOMAIN Q2.tasks
       IN [queue |-> Q2,
           inflight |-> Detach(d.inflight, gone),
           jobs |-> DetachJobs(d.jobs, gone),
           called |-> d.called,
           tick |-> [ran |-> TRUE, ready |-> readyTasks,
                     skipped |-> {acc.skipped[i] : i \in 1..Len(acc.skipped)},
                     started |-> d.started,
                     executingBefore |-> Cardinality(Q.currentlyExecuting),
                     afterStop |-> d.afterStop]]

\* ------------------------- the closures of CacheManager and PersistentCache
\* Both modules take the one queue getGlobalTaskQueue() returns.  A task's
\* fn is named after the object whose method the closure calls: the manager
\* for () => this.cleanupAll(), the PersistentCache (the MyCache object it
\* wraps and its storage key) for () => this.save().
Managers == {"m1", "m2"}
StorageKeys == {"k1"}

CleanupFn(m) == "cleanupAll:" \o m
SaveFn(id, storageKey) == "save:" \o storageKey \o "@" \o ToString(id)

\* an object a manager holds or the application uses: a MyCache (object
\* cache), or a PersistentCache around it (#cache) with its storage key and
\* #autoSave
Instance(kind, id, storageKey, autoSave) ==
  [kind |-> kind, cache |-> id, storageKey |-> storageKey, autoSave |-> autoSave]
BaseCache(id) == Instance("MyCache", id, "", FALSE)
\* #cache = cache, #autoSave = autoSaveInterval !== null
PersistentCache_new(id, storageKey, autoSaveInterval) ==
  Instance("PersistentCache", id, storageKey, autoSaveInterval # Null)

\* the file: absent, or the entries of the cacheData written last (the
\* timestamp and the stats in it are read by nobody)
NoFile == [exists |-> FALSE, entries |-> EmptyMap]
File(es) == [exists |-> TRUE, entries |-> es]

\* JSON.stringify and JSON.parse with the replacer and the reviver: a finite
\* number comes back as it is, Infinity is written as null and comes back
\* as null
JSON_roundTrip(number) == IF number = Infinity THEN Null ELSE number

\* the MyCache objects and the storage, the objects the closures reach
Objects ==
  [cache |-> [i \in 0..Len(managed) |-> IF i = 0 THEN Cache ELSE managed[i]],
   storage |-> storage]

ObjectsBecome(after) ==
  \E w \in {after} :
    /\ CacheBecomes(w.cache[0])
    /\ managed' = [i \in (DOMAIN w.cache) \ {0} |-> w.cache[i]]
    /\ storage' = w.storage

\* new MyCache(...): the object c is one more object
NewObject(w, c) ==
  [w EXCEPT !.cache = [i \in 0..Cardinality(DOMAIN w.cache) |->
                         IF i \in DOMAIN w.cache THEN w.cache[i] ELSE c]]

\* keys(): the keys whose entry has now <= expiresAt, in the insertion order
\* of the entry table (for a table of at most one entry)
MyCache_keys(es, t) ==
  LET valid == {k \in DOMAIN es : t <= es[k].expiresAt}
  IN IF valid = {} THEN <<>> ELSE <<CHOOSE k \in valid : TRUE>>

\* the table is one keys() gives in the order of the code
OneEntry(keys) == Cardinality(keys) <= 1

\* _serializeCacheEntries(), the loop over keys() on [cache, entries]: the
\* value is read with get(key), the expiresAt from entries()
RECURSIVE PersistentCache_serializeCacheEntries(_, _, _, _)
PersistentCache_serializeCacheEntries(acc, keys, t, cap) ==
  IF keys = <<>> THEN acc
  ELSE LET key == Head(keys)
           c == MyCache_getOn(acc.cache, key, t, cap)
           item == c.ret.value
       IN PersistentCache_serializeCacheEntries(
            [cache |-> c,
             entries |-> IF item # NullValue /\ MapHas(c.entries, key)
                         THEN MapSet(acc.entries, key,
                                     [value |-> item,
                                      expiresAt |-> c.entries[key].expiresAt])
                         ELSE acc.entries],
            Tail(keys), t, cap)

\* save() of a PersistentCache around the object id: the entries are
\* serialized (getStats() reads only) and MinimalPersistence.save writes the
\* file
PersistentCache_saveOn(w, id, storageKey, t, cap) ==
  LET r == PersistentCache_serializeCacheEntries(
             [cache |-> w.cache[id], entries |-> EmptyMap],
             MyCache_keys(w.cache[id].entries, t), t, cap)
      written == [k \in DOMAIN r.entries |->
                    [r.entries[k] EXCEPT !.expiresAt = JSON_roundTrip(@)]]
  IN [cache |-> [w.cache EXCEPT ![id] = r.cache],
      storage |-> [w.storage EXCEPT ![storageKey] = File(written)]]

\* the loop of load() over the entries of the file (at most one): an entry
\* with now <= expiresAt is set with the time it has left; null <= now as
\* 0 <= now
RECURSIVE PersistentCache_restore(_, _, _, _)
PersistentCache_restore(c, es, t, cap) ==
  IF DOMAIN es = {} THEN c
  ELSE LET key == CHOOSE k \in DOMAIN es : TRUE
           item == es[key]
           valid == IF item.expiresAt = Null THEN t <= 0 ELSE t <= item.expiresAt
       IN PersistentCache_restore(
            IF valid
            THEN MyCache_setOn(c, key, item.value, item.expiresAt - t, t, cap)
            ELSE c,
            MapDelete(es, key), t, cap)

\* load(): without a file nothing happens; with one the cache is cleared
\* and the entries of the file are restored
PersistentCache_loadOn(c, file, t, cap) ==
  IF ~file.exists THEN c
  ELSE PersistentCache_restore(MyCache_clearOn(c), file.entries, t, cap)

\* clear() of the PersistentCache p: clear() of the cache, and save() when
\* autosave is off
PersistentCache_clearOn(w, p, t, cap) ==
  LET w1 == [w EXCEPT !.cache[p.cache] = MyCache_clearOn(@)]
  IN IF p.autoSave THEN w1
     ELSE PersistentCache_saveOn(w1, p.cache, p.storageKey, t, cap)

\* destroy() of what a manager holds: MyCache.destroy(), or
\* PersistentCache.destroy(), whose removeTask is never reached (see
\* PersistentCache_saveInterval) and which ends in clear()
Instance_destroyOn(w, x, t, cap) ==
  IF x.kind = "MyCache"
  THEN [w EXCEPT !.cache[x.cache] = MyCache_destroyOn(@)]
  ELSE PersistentCache_clearOn(w, x, t, cap)

\* cleanupAll(): cleanup() of every cache held whose size() is above 0 (a
\* PersistentCache passes both calls to its cache; the caches held are
\* different objects, so the order of the loop makes no difference)
RECURSIVE CacheManager_cleanupAllOn(_, _, _, _)
CacheManager_cleanupAllOn(w, held, t, cap) ==
  IF held = EmptyMap THEN w
  ELSE LET name == CHOOSE n \in DOMAIN held : TRUE
           id == held[name].cache
       IN CacheManager_cleanupAllOn(
            IF MyCache_size(w.cache[id]) > 0
            THEN [w EXCEPT !.cache[id] = MyCache_cleanupOn(@, t, cap)]
            ELSE w,
            MapDelete(held, name), t, cap)

\* the call of a fn during a dispatch: () => this.cleanupAll() of a manager
\* (held: the caches of every manager at the call), () => this.save() of a
\* PersistentCache; the fns of the other tasks leave the caches and the
\* storage alone
RunFn(w, held, fn, t, cap) ==
  IF \E m \in Managers : fn = CleanupFn(m)
  THEN LET m == CHOOSE x \in Managers : fn = CleanupFn(x)
       IN CacheManager_cleanupAllOn(w, held[m], t, cap)
  ELSE IF \E id \in DOMAIN w.cache, k \in StorageKeys : fn = SaveFn(id, k)
  THEN LET p == CHOOSE x \in (DOMAIN w.cache) \X StorageKeys :
                  fn = SaveFn(x[1], x[2])
       IN PersistentCache_saveOn(w, p[1], p[2], t, cap)
  ELSE w

RECURSIVE RunFns(_, _, _, _, _)
RunFns(w, held, fns, t, cap) ==
  IF fns = <<>> THEN w
  ELSE RunFns(RunFn(w, held, Head(fns), t, cap), held, Tail(fns), t, cap)

\* a save() among the calls finds a table keys() gives in order
SavesInOrder(fns) ==
  \A i \in 1..Len(fns), id \in DOMAIN Objects.cache, k \in StorageKeys :
    fns[i] = SaveFn(id, k) => OneEntry(DOMAIN Objects.cache[id].entries)

\* ------------------------------------------------------------ the steps
\* executeNow is called while fewer executions than this are in flight or
\* have a promise job waiting
MaxInFlight == 2

vars == <<now, statCap, cacheVars, queueVars>>

\* the clock moves on
Advance ==
  /\ now < Epoch + MaxTime
  /\ now' = now + 1
  /\ UNCHANGED <<statCap, cacheVars, queueVars>>

\* the queue after the step
QueueBecomes(Q, fl, js, tk) ==
  /\ queue' = Q
  /\ inflight' = fl
  /\ jobs' = js
  /\ tick' = tk

\* the queue after a call after which the task objects of the ids are out
\* of the table
QueueCalled(Q, ids) ==
  QueueBecomes(Q, Detach(inflight, ids), DetachJobs(jobs, ids), NoTick)

\* a step of the queue that calls no fn
QueueStep(Q, fl, js, tk) ==
  /\ QueueBecomes(Q, fl, js, tk)
  /\ UNCHANGED <<now, statCap, cacheVars, cleanupFrequency, caches, persistent,
                 storage, managed>>

QueueCall(Q, ids) ==
  QueueStep(Q, Detach(inflight, ids), DetachJobs(jobs, ids), NoTick)

\* a step of the queue that calls the fns
DispatchStep(Q, fl, js, tk, fns) ==
  /\ SavesInOrder(fns)
  /\ QueueBecomes(Q, fl, js, tk)
  /\ ObjectsBecome(RunFns(Objects, caches, fns, now, statCap))
  /\ UNCHANGED <<now, statCap, cleanupFrequency, caches, persistent>>

AddTask(id, interval, opts) ==
  QueueCall(TaskQueue_addTask(queue, id, interval, opts, now), {id})

RemoveTask(id) == QueueCall(TaskQueue_removeTask(queue, id), {id})

PauseTask(id) == QueueCall(TaskQueue_pauseTask(queue, id), {})

ResumeTask(id) == QueueCall(TaskQueue_resumeTask(queue, id), {})

Start == QueueCall(TaskQueue_start(queue, now), {})

Stop == QueueCall(TaskQueue_stop(queue), {})

Clear == QueueCall(TaskQueue_clear(queue), DOMAIN queue.tasks)

Destroy == QueueCall(TaskQueue_destroy(queue), DOMAIN queue.tasks)

GetStatus == QueueCall(TaskQueue_getStatus(queue, now), {})

SetTaskDebounce(id, debounceTime) ==
  QueueCall(TaskQueue_setTaskDebounce(queue, id, debounceTime), {})

ResetTaskDebounce(id) == QueueCall(TaskQueue_resetTaskDebounce(queue, id), {})

\* executeNow(id) of a task of the table, up to its await
ExecuteNow(id) ==
  /\ MapHas(queue.tasks, id)
  /\ BagSize(inflight) + ExecJobs(jobs) < MaxInFlight
  /\ LET r == TaskQueue_executeNow(queue, inflight, jobs, id, now, statCap)
     IN DispatchStep(r.queue, r.inflight, r.jobs, NoTick,
                     IF r.started THEN <<queue.tasks[id].fn>> ELSE <<>>)

\* the timer fires, in a turn of its own (no promise job waits):
\* _processTasks() runs to its end, the fns of the tasks it starts are
\* called on the way, and the then() on the promise it returns queues
\* scheduleNextTick() behind the jobs the dispatch queued
Tick ==
  /\ queue.dynamicTimer.pending
  /\ now >= queue.dynamicTimer.at
  /\ jobs = <<>>
  /\ LET r == TaskQueue_processTasks(
                [queue EXCEPT !.dynamicTimer.pending = FALSE], inflight, jobs,
                now, statCap)
     IN DispatchStep(r.queue, r.inflight, Append(r.jobs, TickJob), r.tick,
                     r.called)

\* the promise of a pending fn settles: it is fulfilled (ok) or rejected;
\* the await in execute() queues the rest of execute()
Complete(e, ok) ==
  /\ e \in DOMAIN inflight
  /\ QueueStep(queue, BagRemove(inflight, e),
               Append(jobs, Job("execute", e, ok)), NoTick)

\* the promise job at the head of the queue runs; the observation of the
\* tick stays while its own scheduleNextTick() runs
RunJob ==
  /\ jobs # <<>>
  /\ LET j == Head(jobs)
         r == TaskQueue_runJob(queue, j, now, statCap)
     IN QueueStep(r.queue, inflight, Tail(jobs) \o r.then,
                  IF j.kind = "scheduleNextTick" THEN tick ELSE NoTick)

\* ------------------------------------------------- specification of the cache
TTLs == {Null, Infinity} \cup (0..MaxTTL)

CacheConfigs ==
  [enableLRU : BOOLEAN, enableWeakOptimization : {FALSE}, maxSize : {1},
   defaultTTL : {1}]

\* the options a TaskQueue gets when none are given
QueueDefaults == [minTickInterval |-> 100, maxTickInterval |-> TickCeiling,
                  maxConcurrent |-> 1]

\* this._cleanupFrequency of a new CacheManager
CleanupFrequency == 60000

\* a queue on which nothing has run yet, managers that hold no cache, no
\* PersistentCache and no file
IdleJobs ==
  /\ inflight = EmptyMap
  /\ tick = NoTick
  /\ jobs = <<>>
  /\ cleanupFrequency = [m \in Managers |-> CleanupFrequency]
  /\ caches = [m \in Managers |-> EmptyMap]
  /\ persistent = {}
  /\ storage = [k \in StorageKeys |-> NoFile]
  /\ managed = <<>>

IdleQueue ==
  /\ queue = TaskQueue_new(QueueDefaults)
  /\ IdleJobs

InitCache ==
  /\ now = Epoch
  /\ statCap = 0
  /\ \E opts \in CacheConfigs : MyCache_constructor(opts)
  /\ IdleQueue

NextCache ==
  \/ \E k \in Keys2, ttl \in TTLs : MyCache_set(k, "o1", ttl) /\ UNCHANGED queueVars
  \/ \E k \in Keys2 : MyCache_get(k) /\ UNCHANGED queueVars
  \/ \E k \in Keys2 : MyCache_has(k) /\ UNCHANGED queueVars
  \/ \E k \in Keys2 : MyCache_delete(k) /\ UNCHANGED queueVars
  \/ \E k \in Keys2, ttl \in TTLs : MyCache_updateTTL(k, ttl) /\ UNCHANGED queueVars
  \/ MyCache_cleanup /\ UNCHANGED queueVars
  \/ MyCache_clear /\ UNCHANGED queueVars
  \/ Advance

SpecCache == InitCache /\ [][NextCache]_vars

\* ------------------------------------ specification of reads and their clones
CloneConfigs ==
  [enableLRU : {FALSE}, enableWeakOptimization : BOOLEAN, maxSize : {2},
   defaultTTL : {Infinity}]

InitClone ==
  /\ now = Epoch
  /\ statCap = 0
  /\ \E opts \in CloneConfigs : MyCache_constructor(opts)
  /\ IdleQueue

NextClone ==
  \/ \E k \in Keys2, v \in Values : MyCache_set(k, v, Null) /\ UNCHANGED queueVars
  \/ \E k \in Keys2 : MyCache_get(k) /\ UNCHANGED queueVars
  \/ \E k \in Keys2 : MyCache_delete(k) /\ UNCHANGED queueVars
  \/ MyCache_clear /\ UNCHANGED queueVars
  \/ MutateReturned /\ UNCHANGED queueVars

SpecClone == InitClone /\ [][NextClone]_vars

\* ------------------------------------------- specification of the recency list
LRUConfigs ==
  [enableLRU : {TRUE}, enableWeakOptimization : {FALSE}, maxSize : {2},
   defaultTTL : {Infinity}]

InitLRU ==
  /\ now = Epoch
  /\ statCap = 0
  /\ \E opts \in LRUConfigs : MyCache_constructor(opts)
  /\ IdleQueue

NextLRU ==
  \/ \E k \in Keys, ttl \in {Null, 1} : MyCache_set(k, "p1", ttl) /\ UNCHANGED queueVars
  \/ \E k \in Keys : MyCache_get(k) /\ UNCHANGED queueVars
  \/ \E k \in Keys : MyCache_has(k) /\ UNCHANGED queueVars
  \/ \E k \in Keys : MyCache_delete(k) /\ UNCHANGED queueVars
  \/ \E k \in Keys : MyCache_updateTTL(k, 1) /\ UNCHANGED queueVars
  \/ MyCache_cleanup /\ UNCHANGED queueVars
  \/ MyCache_clear /\ UNCHANGED queueVars
  \/ Advance

SpecLRU == InitLRU /\ [][NextLRU]_vars

\* ------------------------------------------ specification of lazy expiry
ExpireConfigs ==
  [enableLRU : BOOLEAN, enableWeakOptimization : {FALSE}, maxSize : {2},
   defaultTTL : {1}]

InitExpire ==
  /\ now = Epoch
  /\ statCap = MaxCount
  /\ \E opts \in ExpireConfigs : MyCache_constructor(opts)
  /\ IdleQueue

NextExpire ==
  \/ \E k \in Keys2, ttl \in {Null, Infinity} :
       MyCache_set(k, "p1", ttl) /\ UNCHANGED queueVars
  \/ \E k \in Keys2 : MyCache_get(k) /\ UNCHANGED queueVars
  \/ Advance

SpecExpire == InitExpire /\ [][NextExpire]_vars

\* ----------------------------------------------- specification of eviction
InitEvict ==
  /\ now = Epoch
  /\ statCap = MaxCount
  /\ \E opts \in LRUConfigs : MyCache_constructor(opts)
  /\ IdleQueue

NextEvict ==
  \/ \E k \in Keys : MyCache_set(k, "p1", Null) /\ UNCHANGED queueVars
  \/ \E k \in Keys : MyCache_get(k) /\ UNCHANGED queueVars
  \/ \E k \in Keys : MyCache_delete(k) /\ UNCHANGED queueVars

SpecEvict == InitEvict /\ [][NextEvict]_vars

\* ------------------------------------ specification of inserts of new keys
InsertConfigs ==
  [enableLRU : {TRUE}, enableWeakOptimization : {FALSE}, maxSize : 1..3,
   defaultTTL : {Infinity}]

InitInsert ==
  /\ now = Epoch
  /\ statCap = MaxCount
  /\ \E opts \in InsertConfigs : MyCache_constructor(opts)
  /\ IdleQueue

\* only sets, each of a key that was not set before
NextInsert ==
  \/ \E k \in Keys4, ttl \in {Null, 1} :
       /\ \A i \in 1..Len(recency) : recency[i] # k
       /\ MyCache_set(k, "p1", ttl)
       /\ UNCHANGED queueVars
  \/ Advance

SpecInsert == InitInsert /\ [][NextInsert]_vars

\* ------------------------------------------- specification of validation
ValidateKeys == {"a"} \cup BlankKeys \cup NonStringKeys
ValidateTTLs == {Null, 1, NaN, NotNumber, Negative}

ValidateConfigs ==
  [enableLRU : {TRUE}, enableWeakOptimization : {FALSE}, maxSize : {1},
   defaultTTL : {Infinity}]

InitValidate ==
  /\ now = Epoch
  /\ statCap = MaxCount
  /\ \E opts \in ValidateConfigs : MyCache_constructor(opts)
  /\ IdleQueue

NextValidate ==
  \/ \E k \in ValidateKeys, ttl \in ValidateTTLs :
       MyCache_set(k, "p1", ttl) /\ UNCHANGED queueVars
  \/ \E k \in ValidateKeys : MyCache_get(k) /\ UNCHANGED queueVars
  \/ \E k \in ValidateKeys : MyCache_has(k) /\ UNCHANGED queueVars
  \/ \E k \in ValidateKeys : MyCache_delete(k) /\ UNCHANGED queueVars
  \/ \E k \in ValidateKeys : MyCache_getTTL(k) /\ UNCHANGED queueVars
  \/ \E k \in ValidateKeys, ttl \in ValidateTTLs :
       MyCache_updateTTL(k, ttl) /\ UNCHANGED queueVars

SpecValidate == InitValidate /\ [][NextValidate]_vars

\* ------------------------------------------------- specification of the queue
TaskIds == {"t1", "t2", "t3"}
TaskIds2 == {"t1", "t2"}

\* the options a task id is added with
PriorityOf(id) == IF id = "t1" THEN 1 ELSE 0
PlainOptions(id) ==
  [priority |-> PriorityOf(id), maxExecutions |-> Null, debounce |-> Null,
   onError |-> FALSE, fn |-> "run"]
OnceOptions(id) ==
  [priority |-> PriorityOf(id), maxExecutions |-> 1, debounce |-> Null,
   onError |-> FALSE, fn |-> "run"]
\* a task to run once whose fn is not async and throws
ThrowOnceOptions(id) == [OnceOptions(id) EXCEPT !.fn = "throw"]

QueueConfigs ==
  [minTickInterval : {1}, maxTickInterval : {TickCeiling}, maxConcurrent : {1}]

IdleCache ==
  MyCache_constructor([enableLRU |-> FALSE, enableWeakOptimization |-> FALSE,
                       maxSize |-> 1, defaultTTL |-> 1])

InitQueue ==
  /\ now = Epoch
  /\ statCap = 0
  /\ IdleCache
  /\ \E opts \in QueueConfigs : queue = TaskQueue_new(opts)
  /\ IdleJobs

NextQueue ==
  \/ AddTask("t1", 1, PlainOptions("t1"))
  \/ AddTask("t2", 1, OnceOptions("t2"))
  \/ AddTask("t2", 1, ThrowOnceOptions("t2"))
  \/ \E id \in TaskIds2 : RemoveTask(id)
  \/ \E id \in TaskIds2 : ExecuteNow(id)
  \/ Clear
  \/ Tick
  \/ \E e \in DOMAIN inflight, ok \in BOOLEAN : jobs = <<>> /\ Complete(e, ok)
  \/ RunJob
  \/ jobs = <<>> /\ Advance

SpecQueue == InitQueue /\ [][NextQueue]_vars

\* ------------------------------------- specification of the concurrency cap
NextCap ==
  \/ \E id \in TaskIds : jobs = <<>> /\ AddTask(id, 1, PlainOptions(id))
  \/ \E id \in TaskIds : jobs = <<>> /\ ExecuteNow(id)
  \/ Tick
  \/ \E e \in DOMAIN inflight, ok \in BOOLEAN : jobs = <<>> /\ Complete(e, ok)
  \/ RunJob
  \/ jobs = <<>> /\ Advance

SpecCap == InitQueue /\ [][NextCap]_vars

\* ------------------------------------------------ specification of debounce
\* the debounce window of the tasks, longer than their interval
Window == 2
DebounceOptions(id) ==
  [priority |-> PriorityOf(id), maxExecutions |-> Null, debounce |-> Window,
   onError |-> FALSE, fn |-> "run"]

InitDebounce ==
  /\ now = Epoch
  /\ statCap = MaxCount
  /\ IdleCache
  /\ \E opts \in QueueConfigs : queue = TaskQueue_new(opts)
  /\ IdleJobs

NextDebounce ==
  \/ \E id \in TaskIds2 : AddTask(id, 1, DebounceOptions(id))
  \/ ExecuteNow("t1")
  \/ Tick
  \/ \E e \in DOMAIN inflight, ok \in BOOLEAN : Complete(e, ok)
  \/ RunJob
  \/ Advance

SpecDebounce == InitDebounce /\ [][NextDebounce]_vars

\* ------------------------------------------ specification of priorities
\* three priorities, the task added under the first id has the lowest
PriorityOptions(id) ==
  [priority |-> IF id = "t1" THEN 0 ELSE IF id = "t2" THEN 2 ELSE 1,
   maxExecutions |-> Null, debounce |-> Null, onError |-> FALSE, fn |-> "run"]

PriorityConfigs ==
  [minTickInterval : {1}, maxTickInterval : {TickCeiling}, maxConcurrent : {2, 3}]

InitPriority ==
  /\ now = Epoch
  /\ statCap = 0
  /\ IdleCache
  /\ \E opts \in PriorityConfigs : queue = TaskQueue_new(opts)
  /\ IdleJobs

NextPriority ==
  \/ \E id \in TaskIds : AddTask(id, 1, PriorityOptions(id))
  \/ Tick
  \/ \E e \in DOMAIN inflight : jobs = <<>> /\ Complete(e, TRUE)
  \/ RunJob
  \/ jobs = <<>> /\ Advance

SpecPriority == InitPriority /\ [][NextPriority]_vars

\* ------------------------------------- specification of failing executions
\* the task added under the first id has an onError callback and an async
\* fn, the fn of the other task is not async and throws
ErrorOptions(id) ==
  [priority |-> PriorityOf(id), maxExecutions |-> Null, debounce |-> Null,
   onError |-> (id = "t1"), fn |-> IF id = "t1" THEN "run" ELSE "throw"]

\* the maxExecutions the failing tasks are added with: none, or a limit the
\* first or the second execution reaches
ErrorLimits == {Null, 1, 2}
LimitedErrorOptions(id, maxExecutions) ==
  [ErrorOptions(id) EXCEPT !.maxExecutions = maxExecutions]

NextError ==
  \/ \E id \in TaskIds2, mx \in ErrorLimits :
       AddTask(id, 1, LimitedErrorOptions(id, mx))
  \/ \E id \in TaskIds2 : RemoveTask(id)
  \/ Tick
  \/ \E e \in DOMAIN inflight, ok \in BOOLEAN : Complete(e, ok)
  \/ RunJob
  \/ Advance

SpecError == InitDebounce /\ [][NextError]_vars

\* --------------------------------------------- specification of removal
NextRemove ==
  \/ \E id \in TaskIds2 : AddTask(id, 1, PlainOptions(id))
  \/ \E id \in TaskIds2 : RemoveTask(id)
  \/ \E id \in TaskIds2 : ExecuteNow(id)
  \/ Tick
  \/ \E e \in DOMAIN inflight, ok \in BOOLEAN : jobs = <<>> /\ Complete(e, ok)
  \/ RunJob
  \/ jobs = <<>> /\ Advance

SpecRemove == InitQueue /\ [][NextRemove]_vars

\* ------------------------------------------------ specification of stop
\* the fn of the task added under the first id calls queue.stop()
StopOptions(id) ==
  [priority |-> PriorityOf(id), maxExecutions |-> Null, debounce |-> Null,
   onError |-> FALSE, fn |-> IF id = "t1" THEN "stop" ELSE "run"]

NextStop ==
  \/ \E id \in TaskIds2 : AddTask(id, 1, StopOptions(id))
  \/ Start
  \/ Stop
  \/ Tick
  \/ \E e \in DOMAIN inflight, ok \in BOOLEAN : Complete(e, ok)
  \/ RunJob
  \/ Advance

SpecStop == InitPriority /\ [][NextStop]_vars

\* ------------------------------------------ specification of the tick delay
DelayConfigs ==
  [minTickInterval : {1, 2}, maxTickInterval : {2, 3}, maxConcurrent : {1}]

InitDelay ==
  /\ now = Epoch
  /\ statCap = 0
  /\ IdleCache
  /\ \E opts \in DelayConfigs : queue = TaskQueue_new(opts)
  /\ IdleJobs

\* tasks of a short and of a long interval
NextDelay ==
  \/ \E id \in TaskIds2, interval \in {1, 4} :
       AddTask(id, interval, PlainOptions(id))
  \/ \E id \in TaskIds2 : RemoveTask(id)
  \/ Start
  \/ Stop
  \/ Tick
  \/ \E e \in DOMAIN inflight, ok \in BOOLEAN : Complete(e, ok)
  \/ RunJob
  \/ Advance

SpecDelay == InitDelay /\ [][NextDelay]_vars

\* ------------------------------------------- specification of getStatus
\* getStatus() among the calls that set or change the debouncer
NextStatus ==
  \/ \E id \in TaskIds2 : AddTask(id, 1, DebounceOptions(id))
  \/ GetStatus
  \/ \E id \in TaskIds2, d \in {Null, 1} : SetTaskDebounce(id, d)
  \/ \E id \in TaskIds2 : ResetTaskDebounce(id)
  \/ Tick
  \/ \E e \in DOMAIN inflight, ok \in BOOLEAN : Complete(e, ok)
  \/ RunJob
  \/ Advance

SpecStatus == InitDebounce /\ [][NextStatus]_vars

\* --------------------------------------------- specification of pause/resume
NextPause ==
  \/ \E id \in TaskIds2 : AddTask(id, 1, PlainOptions(id))
  \/ \E id \in TaskIds2 : PauseTask(id)
  \/ \E id \in TaskIds2 : ResumeTask(id)
  \/ Start
  \/ Stop
  \/ Tick
  \/ \E e \in DOMAIN inflight, ok \in BOOLEAN : Complete(e, ok)
  \/ RunJob
  \/ Advance

SpecPause == InitQueue /\ [][NextPause]_vars

\* --------------------------------------- specification of the tick timer
\* every public way to set or cancel the timer, and task functions that
\* stop or restart the queue from inside a tick
TimerOptions(id, f) ==
  [priority |-> PriorityOf(id), maxExecutions |-> Null, debounce |-> Null,
   onError |-> FALSE, fn |-> f]

NextTimer ==
  \/ \E id \in TaskIds2, f \in {"run", "stop", "restart"} :
       AddTask(id, 1, TimerOptions(id, f))
  \/ \E id \in TaskIds2 : RemoveTask(id)
  \/ Start
  \/ Stop
  \/ Clear
  \/ Tick
  \/ \E e \in DOMAIN inflight, ok \in BOOLEAN : jobs = <<>> /\ Complete(e, ok)
  \/ RunJob
  \/ jobs = <<>> /\ Advance

SpecTimer == InitPriority /\ [][NextTimer]_vars

\* ------------------------------------------- specification of destroy()
\* a queue is driven until it is destroyed; afterwards only the executions
\* still in flight settle
NextDestroy ==
  \/ \E id \in TaskIds2 : ~queue.destroyed /\ AddTask(id, 1, ErrorOptions(id))
  \/ ~queue.destroyed /\ Clear
  \/ ~queue.destroyed /\ Destroy
  \/ Tick
  \/ \E e \in DOMAIN inflight, ok \in BOOLEAN : Complete(e, ok)
  \/ RunJob
  \/ Advance

SpecDestroy == InitDebounce /\ [][NextDestroy]_vars

\* ------------------------- CacheManager and PersistentCache on the queue
CacheNames == {"c1"}

\* this._taskId of every CacheManager
CacheManager_taskId == "cleanup"
CleanupOptions(m) ==
  [priority |-> 0, maxExecutions |-> Null, debounce |-> Null,
   onError |-> FALSE, fn |-> CleanupFn(m)]

CacheManager_startAutoCleanup(m) ==
  AddTask(CacheManager_taskId, cleanupFrequency[m], CleanupOptions(m))

CacheManager_stopAutoCleanup(m) == RemoveTask(CacheManager_taskId)

\* the debounce option of the autosave task
AutoSaveDebounce == 3000
SaveTaskId(storageKey) == "saveCache-" \o storageKey
AutoSaveOptions(id, storageKey) ==
  [priority |-> 1, maxExecutions |-> Null, debounce |-> AutoSaveDebounce,
   onError |-> FALSE, fn |-> SaveFn(id, storageKey)]

\* the end of the constructor of PersistentCache: with a number as interval
\* the autosave task is added
PersistentCache_addAutoSave(Q, id, storageKey, autoSaveInterval, t) ==
  IF autoSaveInterval # Null
  THEN TaskQueue_addTask(Q, SaveTaskId(storageKey), autoSaveInterval,
                         AutoSaveOptions(id, storageKey), t)
  ELSE Q

\* the queue after a call that has replaced or removed the tasks of the ids
\* (none: the queue was not called)
QueueAfter(Q, ids) ==
  IF ids = {} THEN UNCHANGED <<queue, inflight, jobs, tick>>
  ELSE QueueCalled(Q, ids)

\* new PersistentCache(cache, storageKey, autoSaveInterval) around the
\* MyCache object id, the interval null (the default) or a number: load(),
\* then the autosave task
PersistentCache_constructor(id, storageKey, autoSaveInterval) ==
  /\ id \in DOMAIN Objects.cache
  /\ ObjectsBecome([Objects EXCEPT !.cache[id] =
       PersistentCache_loadOn(@, storage[storageKey], now, statCap)])
  /\ persistent' = persistent \cup
                     {PersistentCache_new(id, storageKey, autoSaveInterval)}
  /\ QueueAfter(PersistentCache_addAutoSave(queue, id, storageKey,
                                            autoSaveInterval, now),
                IF autoSaveInterval # Null THEN {SaveTaskId(storageKey)} ELSE {})
  /\ UNCHANGED <<now, statCap, cleanupFrequency, caches>>

\* a call on the caches and the storage that leaves the queue alone
ObjectsCall(after) ==
  /\ ObjectsBecome(after)
  /\ UNCHANGED <<now, statCap, queue, inflight, jobs, tick, cleanupFrequency,
                 caches, persistent>>

\* a call of a method of the PersistentCache p
PersistentCall(p, after) == p \in persistent /\ ObjectsCall(after)

PersistentCache_save(p) ==
  /\ OneEntry(DOMAIN Objects.cache[p.cache].entries)
  /\ PersistentCall(p, PersistentCache_saveOn(Objects, p.cache, p.storageKey,
                                              now, statCap))

PersistentCache_load(p) ==
  PersistentCall(p, [Objects EXCEPT !.cache[p.cache] =
    PersistentCache_loadOn(@, storage[p.storageKey], now, statCap)])

\* set(key, value, ttl): set of the cache, and save() when autosave is off
\* (a throw of the cache's set leaves the method)
PersistentCache_set(p, key, value, ttl) ==
  /\ p.autoSave \/ OneEntry(DOMAIN Objects.cache[p.cache].entries \cup {key})
  /\ LET c == MyCache_setOn(Objects.cache[p.cache], key, value, ttl, now, statCap)
         w == [Objects EXCEPT !.cache[p.cache] = c]
     IN PersistentCall(p, IF c.ret = Thrown \/ p.autoSave THEN w
                          ELSE PersistentCache_saveOn(w, p.cache, p.storageKey,
                                                      now, statCap))

\* delete(key): delete of the cache, and save() when autosave is off
PersistentCache_delete(p, key) ==
  /\ p.autoSave \/ OneEntry(DOMAIN Objects.cache[p.cache].entries)
  /\ LET c == MyCache_deleteOn(Objects.cache[p.cache], key)
         w == [Objects EXCEPT !.cache[p.cache] = c]
     IN PersistentCall(p, IF c.ret = Thrown \/ p.autoSave THEN w
                          ELSE PersistentCache_saveOn(w, p.cache, p.storageKey,
                                                      now, statCap))

PersistentCache_clear(p) ==
  PersistentCall(p, PersistentCache_clearOn(Objects, p, now, statCap))

\* clearPersistence(): MinimalPersistence.clear() unlinks the file
PersistentCache_clearPersistence(p) ==
  PersistentCall(p, [Objects EXCEPT !.storage[p.storageKey] = NoFile])

\* #saveInterval: set to null by the constructor and assigned nowhere else
PersistentCache_saveInterval == Null

\* destroy(): the removeTask under `if (this.#saveInterval)`, then clear()
PersistentCache_destroy(p) ==
  /\ p \in persistent
  /\ ObjectsBecome(PersistentCache_clearOn(Objects, p, now, statCap))
  /\ queue' = IF PersistentCache_saveInterval # Null
              THEN TaskQueue_removeTask(queue, "saveCache")
              ELSE queue
  /\ tick' = NoTick
  /\ UNCHANGED <<now, statCap, inflight, jobs, cleanupFrequency, caches,
                 persistent>>

\* set(key, value, ttl) of the MyCache object id a manager has made
MyCache_setAt(id, key, value, ttl) ==
  /\ id \in DOMAIN Objects.cache
  /\ ObjectsCall([Objects EXCEPT !.cache[id] =
       MyCache_setOn(@, key, value, ttl, now, statCap)])

\* the config createCache is called with: the options of the cache,
\* enableAutoCleanup and persistence
NoPersistence == [enabled |-> FALSE, storageKey |-> "", autoSaveInterval |-> Null]
Persistence(storageKey, autoSaveInterval) ==
  [enabled |-> TRUE, storageKey |-> storageKey,
   autoSaveInterval |-> autoSaveInterval]
CacheOptions(config) ==
  [enableLRU |-> config.enableLRU,
   enableWeakOptimization |-> config.enableWeakOptimization,
   maxSize |-> config.maxSize, defaultTTL |-> config.defaultTTL]

\* createCache(name, config) with an object as config: a name in use gives
\* the cache held back; otherwise a new MyCache, wrapped in a
\* PersistentCache when persistence is enabled (its constructor loads and
\* adds the autosave task), is held under the name, and with
\* enableAutoCleanup the first cache of the manager starts the auto-cleanup
CacheManager_createCache(m, name, config) ==
  IF MapHas(caches[m], name) THEN UNCHANGED vars
  ELSE
  LET id == Len(managed) + 1
      baseCache == MyCache_new(CacheOptions(config))
      pers == config.persistence
      cacheInstance == IF pers.enabled
                       THEN PersistentCache_new(id, pers.storageKey,
                                                pers.autoSaveInterval)
                       ELSE BaseCache(id)
      held == MapSet(caches[m], name, cacheInstance)
      starts == config.enableAutoCleanup /\ Cardinality(DOMAIN held) = 1
      Q1 == IF pers.enabled
            THEN PersistentCache_addAutoSave(queue, id, pers.storageKey,
                                             pers.autoSaveInterval, now)
            ELSE queue
      Q2 == IF starts
            THEN TaskQueue_addTask(Q1, CacheManager_taskId, cleanupFrequency[m],
                                   CleanupOptions(m), now)
            ELSE Q1
      ids == (IF pers.enabled /\ pers.autoSaveInterval # Null
              THEN {SaveTaskId(pers.storageKey)} ELSE {})
             \cup (IF starts THEN {CacheManager_taskId} ELSE {})
  IN /\ ObjectsBecome(NewObject(Objects,
          IF pers.enabled
          THEN PersistentCache_loadOn(baseCache, storage[pers.storageKey],
                                      now, statCap)
          ELSE baseCache))
     /\ caches' = [caches EXCEPT ![m] = held]
     /\ persistent' = IF pers.enabled THEN persistent \cup {cacheInstance}
                      ELSE persistent
     /\ QueueAfter(Q2, ids)
     /\ UNCHANGED <<now, statCap, cleanupFrequency>>

\* removeCache(name): the cache held under the name is destroyed and let
\* go; stopAutoCleanup() when the manager holds no cache then
CacheManager_removeCache(m, name) ==
  LET held == caches[m]
      left == MapDelete(held, name)
  IN /\ ObjectsBecome(IF MapHas(held, name)
                      THEN Instance_destroyOn(Objects, held[name], now, statCap)
                      ELSE Objects)
     /\ caches' = [caches EXCEPT ![m] = left]
     /\ QueueAfter(TaskQueue_removeTask(queue, CacheManager_taskId),
                   IF left = EmptyMap THEN {CacheManager_taskId} ELSE {})
     /\ UNCHANGED <<now, statCap, cleanupFrequency, persistent>>

\* cleanupAll() called by the application
CacheManager_cleanupAll(m) ==
  ObjectsCall(CacheManager_cleanupAllOn(Objects, caches[m], now, statCap))

\* for (const cache of this._caches.values()) cache.destroy()
RECURSIVE CacheManager_destroyCaches(_, _, _, _)
CacheManager_destroyCaches(w, held, t, cap) ==
  IF held = EmptyMap THEN w
  ELSE LET name == CHOOSE n \in DOMAIN held : TRUE
       IN CacheManager_destroyCaches(Instance_destroyOn(w, held[name], t, cap),
                                     MapDelete(held, name), t, cap)

\* destroy(): stopAutoCleanup(), destroy() of every cache held, and the
\* table of the caches is emptied
CacheManager_destroy(m) ==
  /\ QueueCalled(TaskQueue_removeTask(queue, CacheManager_taskId),
                 {CacheManager_taskId})
  /\ ObjectsBecome(CacheManager_destroyCaches(Objects, caches[m], now, statCap))
  /\ caches' = [caches EXCEPT ![m] = EmptyMap]
  /\ UNCHANGED <<now, statCap, cleanupFrequency, persistent>>

\* the lowest frequency setCleanupFrequency takes
MinCleanupFrequency == 1000

\* setCleanupFrequency(frequency) with a number: below 1000 it throws,
\* otherwise the field is set, then stopAutoCleanup() and startAutoCleanup()
CacheManager_setCleanupFrequency(m, frequency) ==
  IF frequency < MinCleanupFrequency THEN UNCHANGED vars
  ELSE /\ cleanupFrequency' = [cleanupFrequency EXCEPT ![m] = frequency]
       /\ QueueCalled(TaskQueue_addTask(
                        TaskQueue_removeTask(queue, CacheManager_taskId),
                        CacheManager_taskId, frequency, CleanupOptions(m), now),
                      {CacheManager_taskId})
       /\ UNCHANGED <<now, statCap, cacheVars, caches, persistent, storage,
                      managed>>

\* getGlobalTaskQueue(options) makes the queue on its first call: with the
\* defaults when a module of the library calls first, with the options of
\* the application when the application calls first
GlobalQueueConfigs ==
  {QueueDefaults,
   [minTickInterval |-> 1, maxTickInterval |-> TickCeiling, maxConcurrent |-> 1]}

\* the frequencies setCleanupFrequency is called with
Frequencies == {999, 1000}

\* createCache is called while the managers have made fewer caches than this
MaxObjects == 2

\* the configs createCache is called with: a cache of one entry that starts
\* the auto-cleanup
ManagerCacheConfigs ==
  [enableLRU : {FALSE}, enableWeakOptimization : {FALSE}, maxSize : {1},
   defaultTTL : {1}, enableAutoCleanup : {TRUE}, persistence : {NoPersistence}]

\* the clock moves on by the lowest cleanup frequency, once
Elapse ==
  /\ now < Epoch + MinCleanupFrequency
  /\ now' = now + MinCleanupFrequency
  /\ UNCHANGED <<statCap, cacheVars, queueVars>>

InitManager ==
  /\ now = Epoch
  /\ statCap = 0
  /\ IdleCache
  /\ \E opts \in GlobalQueueConfigs : queue = TaskQueue_new(opts)
  /\ IdleJobs

NextManager ==
  \/ \E m \in Managers, cfg \in ManagerCacheConfigs :
       Len(managed) < MaxObjects /\ CacheManager_createCache(m, "c1", cfg)
  \/ \E m \in Managers : CacheManager_removeCache(m, "c1")
  \/ \E m \in Managers : CacheManager_cleanupAll(m)
  \/ \E m \in Managers : CacheManager_startAutoCleanup(m)
  \/ \E m \in Managers : CacheManager_stopAutoCleanup(m)
  \/ \E m \in Managers : CacheManager_destroy(m)
  \/ \E m \in Managers, f \in Frequencies : CacheManager_setCleanupFrequency(m, f)
  \/ \E m \in Managers :
       /\ MapHas(caches[m], "c1")
       /\ MyCache_setAt(caches[m]["c1"].cache, "a", "p1", Null)
  \/ Tick
  \/ RunJob
  \/ Advance
  \/ Elapse

SpecManager == InitManager /\ [][NextManager]_vars

\* ------------------------------------------ specification of the autosave
\* PersistentCache objects with an autosave interval, made by the
\* application around its cache or by createCache of a manager.
AutosaveCacheConfigs ==
  [enableLRU : {FALSE}, enableWeakOptimization : {FALSE}, maxSize : {1},
   defaultTTL : {1}, enableAutoCleanup : {FALSE},
   persistence : {Persistence("k1", 1)}]

NextAutosave ==
  \/ \E k \in StorageKeys, i \in 1..MaxTTL : PersistentCache_constructor(0, k, i)
  \/ \E p \in persistent : PersistentCache_destroy(p)
  \/ \E p \in persistent : PersistentCache_set(p, "a", "p1", Null)
  \/ \E cfg \in AutosaveCacheConfigs :
       Len(managed) < MaxObjects /\ CacheManager_createCache("m1", "c1", cfg)
  \/ CacheManager_destroy("m1")
  \/ Tick
  \/ RunJob
  \/ Advance

SpecAutosave == InitManager /\ [][NextAutosave]_vars

\* ------------------------------------------ specification of save()
\* PersistentCache objects without autosave around the cache, with one key
\* in use; get passes straight to the cache.
PersistKeys == {"a"}

NextPersist ==
  \/ \E k \in StorageKeys : PersistentCache_constructor(0, k, Null)
  \/ \E p \in persistent, k \in PersistKeys, ttl \in {Null, 1} :
       PersistentCache_set(p, k, "p1", ttl)
  \/ \E p \in persistent, k \in PersistKeys : PersistentCache_delete(p, k)
  \/ \E p \in persistent : PersistentCache_clear(p)
  \/ \E p \in persistent : PersistentCache_save(p)
  \/ \E p \in persistent : PersistentCache_load(p)
  \/ \E p \in persistent : PersistentCache_clearPersistence(p)
  \/ \E k \in PersistKeys, ttl \in {Null, 1} :
       MyCache_set(k, "p1", ttl) /\ UNCHANGED queueVars
  \/ \E k \in PersistKeys : MyCache_get(k) /\ UNCHANGED queueVars
  \/ \E k \in PersistKeys : MyCache_delete(k) /\ UNCHANGED queueVars
  \/ Advance

SpecPersist == InitEvict /\ [][NextPersist]_vars

\* ------------------------------------------ specification of the MinHeap
\* The heap object alone (the variable expirationHeap), driven through its
\* public methods with six keys and priorities 1..MaxPriority.
HeapSpecKeys == {"a", "b", "c", "d", "e", "f"}
HeapPriorities == 1..MaxPriority

HeapFrame ==
  /\ UNCHANGED <<now, statCap, options, entries, lruList, lruNodes, usedKeys,
                 stats, cloneCache, recency>>
  /\ UNCHANGED queueVars

HeapPush(k, e) ==
  /\ expirationHeap' = MinHeap_push(expirationHeap, HeapItem(k, e))
  /\ ret' = Ret("push", k, NullValue, FALSE, 0, "")
  /\ HeapFrame

HeapPop ==
  /\ expirationHeap' = MinHeap_pop(expirationHeap)
  /\ ret' = IF MinHeap_size(expirationHeap) = 0
            THEN Ret("pop", "", NullValue, FALSE, 0, "")
            ELSE Ret("pop", MinHeap_peek(expirationHeap).key, NullValue, TRUE,
                     MinHeap_peek(expirationHeap).expiresAt, "")
  /\ HeapFrame

HeapRemove(k) ==
  /\ expirationHeap' = MinHeap_remove(expirationHeap, k)
  /\ ret' = Ret("remove", k, NullValue,
                MinHeap_removeResult(expirationHeap, k), 0, "")
  /\ HeapFrame

HeapExtractAll ==
  /\ expirationHeap' = MinHeap_clear(expirationHeap)
  /\ ret' = Ret("extractAll", "", NullValue, FALSE,
                Len(MinHeap_extractAll(expirationHeap)), "")
  /\ HeapFrame

HeapClear ==
  /\ expirationHeap' = MinHeap_clear(expirationHeap)
  /\ ret' = Ret("clear", "", NullValue, FALSE, 0, "")
  /\ HeapFrame

InitHeap ==
  /\ now = Epoch
  /\ statCap = 0
  /\ IdleCache
  /\ IdleQueue

NextHeap ==
  \/ \E k \in HeapSpecKeys, e \in HeapPriorities : HeapPush(k, e)
  \/ HeapPop
  \/ \E k \in HeapSpecKeys : HeapRemove(k)
  \/ HeapExtractAll
  \/ HeapClear

SpecHeap == InitHeap /\ [][NextHeap]_vars

\* ------------------------------------------------------- claims on the cache
HeapItemsOf(H, k) == {i \in 1..Len(H.heap) : H.heap[i].key = k}

\* C1: every key present in the expiry heap has an entry in the entry table.
C1_HeapKeysHaveEntries == HeapKeys(expirationHeap) \subseteq DOMAIN entries

\* C2: a cleanup() removes an entry only if that entry's own expiresAt is
\* <= now: every entry that is unexpired or never-expiring before the call
\* is still in the table after it.
C2_CleanupRemovesOnlyExpired ==
  [][MyCache_cleanup =>
       \A k \in DOMAIN entries :
         entries[k].expiresAt > now => k \in DOMAIN entries']_vars

\* C3: get(key) returns a non-null value if and only if the key has an entry
\* and now < expiresAt (never included); so a get issued exactly ttl after
\* the set returns null.
C3_GetNonNullIffUnexpired ==
  [][\A k \in Keys2 :
       MyCache_get(k) =>
         ((ret'.value # NullValue)
            <=> (MapHas(entries, k) /\ now < entries[k].expiresAt))]_vars

\* C8: no key whose current entry never expires has an item in the expiry heap.
C8_NeverEntriesNotInHeap ==
  \A k \in DOMAIN entries :
    entries[k].expiresAt = Infinity => k \notin HeapKeys(expirationHeap)

\* C9: every entry of the table with a finite expiresAt has exactly one item
\* in the expiry heap, and the priority of that item is the entry's expiresAt.
C9_FiniteEntriesOnceInHeap ==
  \A k \in DOMAIN entries :
    entries[k].expiresAt # Infinity =>
      /\ Cardinality(HeapItemsOf(expirationHeap, k)) = 1
      /\ \A i \in HeapItemsOf(expirationHeap, k) :
           expirationHeap.heap[i].expiresAt = entries[k].expiresAt

\* C9 witness: an updateTTL gave a finite expiry to a key that already had a
\* heap item, next to another key's item
C9_Witness ==
  /\ ret.op = "updateTTL" /\ ret.flag
  /\ MapHas(entries, ret.key)
  /\ entries[ret.key].expiresAt # Infinity
  /\ entries[ret.key].expiresAt > now + 1
  /\ Len(expirationHeap.heap) = 2

\* C4: in every configuration, two reads of the same key with nothing but
\* the caller's modification of the first result in between return equal
\* values.
C4_ReadsAgree ==
  [][\A k \in Keys2 :
       (MyCache_get(k) /\ ret.op = "get" /\ ret.key = k /\ ret.flag /\ ret'.flag)
         => ret'.value = ret.value]_vars

\* ------------------------------------------------------- claims on the queue
\* C5: with maxConcurrent = k, the tasks a tick newly dispatches are at most
\* k minus the executions in flight at that tick, and none when that
\* difference is not positive, whatever ticks, completions and executeNow
\* calls came before.
C5_TickRespectsCap ==
  tick.ran =>
    Cardinality(tick.started)
      <= Max(0, queue.maxConcurrent - tick.executingBefore)

\* the tick finds the task due: it is active and not running, its time has
\* come and so has the time of its heap item
DueAtTick(id) ==
  /\ queue.tasks[id].isActive
  /\ id \notin queue.currentlyExecuting
  /\ queue.tasks[id].nextExecution <= now
  /\ \E i \in HeapItemsOf(queue.executionHeap, id) :
       queue.executionHeap.heap[i].expiresAt <= now

\* C6: a task with debounce window W whose fn was invoked at t is not invoked
\* again by a tick before t + W; a tick that finds it due before then skips
\* it, keeps it in the heap and counts it in totalSkippedByDebounce.
C6_DebounceSuppresses ==
  [][Tick =>
       \A id \in DOMAIN queue.tasks :
         (/\ queue.tasks[id].debounceTime # Null
          /\ queue.tasks[id].invokedAt # Null
          /\ now < queue.tasks[id].invokedAt + queue.tasks[id].debounceTime)
         => /\ id \notin tick'.started
            /\ DueAtTick(id) =>
                 /\ id \in tick'.skipped
                 /\ id \in HeapKeys(queue'.executionHeap)
                 /\ queue'.stats.totalSkippedByDebounce
                      >= Incr(queue.stats.totalSkippedByDebounce, statCap)]_vars

\* C7: a paused task is in no tick's ready set and is dispatched by no tick,
\* even when it is due.
C7_PausedNeverReady ==
  tick.ran =>
    \A id \in DOMAIN queue.tasks :
      queue.tasks[id].isPaused =>
        /\ id \notin tick.started
        /\ \A i \in 1..Len(tick.ready) : tick.ready[i] # id

\* C10: every key of the scheduling heap names a task of the task table, and
\* every active task of the table has exactly one item in the heap.
C10_HeapAgreesWithTable ==
  /\ HeapKeys(queue.executionHeap) \subseteq DOMAIN queue.tasks
  /\ \A id \in DOMAIN queue.tasks :
       queue.tasks[id].isActive =>
         Cardinality(HeapItemsOf(queue.executionHeap, id)) = 1

\* C10 witness: a tick took a due task out of the heap, dispatched it and put
\* it back, next to a task that was added again while it was running
C10_Witness ==
  /\ tick.ran
  /\ tick.started # {}
  /\ Cardinality(DOMAIN queue.tasks) = 2
  /\ Len(queue.executionHeap.heap) = 2
  /\ \E e \in DOMAIN inflight : ~e.live

\* ------------------------------------------------- claims on the recency list
\* position of a key in the order of last use (1: used last)
UseRank(k) == CHOOSE i \in 1..Len(recency) : recency[i] = k

\* the stored key whose last set or successful get is the oldest
LeastRecentlyUsed ==
  CHOOSE k \in DOMAIN entries :
    \A j \in DOMAIN entries : UseRank(j) <= UseRank(k)

\* C11: with LRU enabled, a set of a key that is not in the table while the
\* table holds maxSize entries evicts exactly one entry, the one whose last
\* set or successful get is the oldest, and evictions grows by exactly one.
C11_EvictsLeastRecentlyUsed ==
  [][\A k \in Keys :
       (/\ MyCache_set(k, "p1", Null)
        /\ ~MapHas(entries, k)
        /\ Cardinality(DOMAIN entries) = options.maxSize)
       => /\ DOMAIN entries' = (DOMAIN entries \ {LeastRecentlyUsed}) \cup {k}
          /\ stats.evictions < statCap
               => stats'.evictions = stats.evictions + 1]_vars

\* C11 witness: a set evicted the key that was stored last but used first,
\* after a get had refreshed the key stored before it
C11_Witness ==
  /\ ret.op = "set"
  /\ stats.evictions = 1
  /\ stats.hits = 1
  /\ Len(recency) = 3
  /\ recency[3] \notin DOMAIN entries
  /\ Cardinality(DOMAIN entries) = 2

\* C12: with maxSize = n and LRU enabled, after n+1 distinct keys were
\* inserted into the empty cache with no reads in between, exactly one key
\* has been evicted: the first one inserted.
C12_FirstInsertedEvicted ==
  Len(recency) = options.maxSize + 1 =>
    /\ DOMAIN entries = {recency[i] : i \in 1..options.maxSize}
    /\ recency[options.maxSize + 1] \notin DOMAIN entries
    /\ stats.evictions = 1

\* C12 witness: three keys went into a cache of two
C12_Witness ==
  /\ options.maxSize = 2
  /\ Len(recency) = 3
  /\ ret.op = "set"
  /\ ret.key = recency[1]
  /\ Cardinality(DOMAIN entries) = 2

\* C13: with LRU enabled and maxSize >= 1, the table never holds more than
\* maxSize entries, whatever operations ran.
C13_SizeWithinMaxSize ==
  (options.enableLRU /\ options.maxSize >= 1) =>
    Cardinality(DOMAIN entries) <= options.maxSize

\* C13 witness: a set on the full table took a third key in and the table
\* still holds two
C13_Witness ==
  /\ options.enableLRU
  /\ ret.op = "set"
  /\ Cardinality(DOMAIN entries) = options.maxSize
  /\ Len(recency) = 3
  /\ \E i \in 1..3 : recency[i] \notin DOMAIN entries

\* C20: with LRU enabled, the recency list holds exactly the keys of the
\* entry table, each once, and the key-to-node table has the same key set.
C20_ListMatchesTable ==
  options.enableLRU =>
    /\ {lruList[i] : i \in 1..Len(lruList)} = DOMAIN entries
    /\ Len(lruList) = Cardinality(DOMAIN entries)
    /\ lruNodes = DOMAIN entries

\* C20 witness: an entry expired and was dropped by a read while another
\* entry stayed, after an eviction
C20_Witness ==
  /\ options.enableLRU
  /\ ret.op = "get" /\ ~ret.flag
  /\ Len(lruList) = 1
  /\ Len(recency) = 3
  /\ ret.key \in {recency[i] : i \in 1..3}
  /\ ret.key \notin DOMAIN entries
  /\ Len(expirationHeap.heap) >= 1

\* C14: in every configuration a set of a new key on a table that holds
\* maxSize entries removes one entry, so the table never holds more than
\* maxSize entries.
C14_NeverExceedsMaxSize == Cardinality(DOMAIN entries) <= options.maxSize

\* ---------------------------------------------- claims on the operations
\* C15: set, get, has, delete, getTTL or updateTTL with an invalid key (not a
\* string, empty, white space only), or set/updateTTL with an invalid ttl
\* (negative, NaN, not a number), throws and leaves entry table, expiry heap,
\* recency list and all counters as they were.
C15_InvalidArgumentsThrow ==
  [][\A k \in ValidateKeys, ttl \in ValidateTTLs :
       LET badKey == k \in BlankKeys \cup NonStringKeys
           badTTL == ttl \in {NaN, NotNumber, Negative}
       IN (\/ (badKey \/ badTTL)
                /\ (MyCache_set(k, "p1", ttl) \/ MyCache_updateTTL(k, ttl))
           \/ badKey
                /\ (\/ MyCache_get(k) \/ MyCache_has(k)
                    \/ MyCache_delete(k) \/ MyCache_getTTL(k)))
          => /\ ret'.op = "error"
             /\ UNCHANGED <<entries, expirationHeap, lruList, lruNodes,
                            usedKeys, stats, cloneCache>>]_vars

\* C15 witness: a call threw on a cache that holds an entry and has counted
C15_Witness ==
  /\ ret.op = "error"
  /\ DOMAIN entries = {"a"}
  /\ stats.sets = 1
  /\ stats.hits = 1
  /\ Len(expirationHeap.heap) = 1

\* C16: has(key) changes nothing: entry table, recency order, expiry heap and
\* statistics counters are the same after it as before, also for a key whose
\* entry has expired.
C16_HasMutatesNothing ==
  [][\A k \in Keys2 :
       MyCache_has(k) =>
         UNCHANGED <<entries, lruList, lruNodes, expirationHeap, stats>>]_vars

\* C17: right after cleanup() returns at time now, no entry with
\* expiresAt <= now is left in the table, and the returned count is the
\* number of entries the call removed from the table.
C17_CleanupSweepsExpired ==
  [][MyCache_cleanup =>
       /\ \A k \in DOMAIN entries' : entries'[k].expiresAt > now
       /\ ret'.count = Cardinality(DOMAIN entries \ DOMAIN entries')]_vars

\* C17 witness: a cleanup removed an expired entry and kept one that had not
\* expired
C17_Witness ==
  /\ ret.op = "cleanup"
  /\ ret.count = 1
  /\ Cardinality(DOMAIN entries) = 1
  /\ \E k \in DOMAIN entries :
       entries[k].expiresAt # Infinity /\ entries[k].expiresAt > now

\* C18: a get(key) that finds an entry whose expiry has passed deletes the
\* entry and its recency node, returns null, and adds exactly one to misses
\* and one to missesExpired, and nothing to hits.
C18_ExpiredGetIsMiss ==
  [][\A k \in Keys2 :
       (MyCache_get(k) /\ MapHas(entries, k) /\ now > entries[k].expiresAt) =>
         /\ ~MapHas(entries', k)
         /\ k \notin lruNodes'
         /\ k \notin {lruList'[i] : i \in 1..Len(lruList')}
         /\ ret'.op = "get" /\ ret'.value = NullValue /\ ~ret'.flag
         /\ stats.misses < statCap => stats'.misses = stats.misses + 1
         /\ stats.missesExpired < statCap =>
              stats'.missesExpired = stats.missesExpired + 1
         /\ stats'.hits = stats.hits
         /\ stats'.missesCold = stats.missesCold]_vars

\* C18 witness: a key was read with a hit, then expired, and the next read
\* of it was the only miss, counted as expired, while the other key stayed
C18_Witness ==
  /\ options.enableLRU
  /\ ret.op = "get" /\ ~ret.flag
  /\ ret.key \notin DOMAIN entries
  /\ stats.hits = 1
  /\ stats.misses = 1
  /\ stats.missesExpired = 1
  /\ Len(lruList) = 1

\* C19: set(key, value, ttl) with a valid numeric ttl >= 0 stores
\* expiresAt = now + ttl; defaultTTL is applied only when ttl is null or
\* omitted.
C19_NumericTTLIsStored ==
  [][\A k \in Keys2, ttl \in 0..MaxTTL :
       MyCache_set(k, "o1", ttl) =>
         MapHas(entries', k) /\ entries'[k].expiresAt = now + ttl]_vars

\* ------------------------------------------- claims on the executions
\* the invocations of fn that the task object the table holds under id has
\* not counted yet (fn has not settled, or the rest of execute() waits), and
\* the executions in flight of the id whatever task object they belong to
LiveInFlightOf(id) ==
  BagSize([e \in {x \in DOMAIN inflight : x.id = id /\ x.live} |-> inflight[e]])
  + Cardinality({i \in 1..Len(jobs) :
                   jobs[i].kind = "execute" /\ jobs[i].e.id = id /\ jobs[i].e.live})
InFlightOf(id) ==
  BagSize([e \in {x \in DOMAIN inflight : x.id = id} |-> inflight[e]])

\* C21: the fn of a task added with maxExecutions = m is invoked at most m
\* times in total (the executions that settled and those in flight), over any
\* interleaving of ticks and executeNow calls, and a task whose execution
\* count has reached m is not active.
C21_AtMostMaxExecutions ==
  \A id \in DOMAIN queue.tasks :
    LET task == queue.tasks[id]
    IN task.maxExecutions # Infinity =>
         /\ task.executionCount + LiveInFlightOf(id) <= task.maxExecutions
         /\ task.executionCount >= task.maxExecutions => ~task.isActive

\* C22: at every moment the number of task executions in flight in one queue
\* is at most maxConcurrent.
C22_InFlightWithinMaxConcurrent == BagSize(inflight) <= queue.maxConcurrent

\* C23: no task id ever has two executions in flight at the same time, across
\* any interleaving of ticks and executeNow with removeTask, addTask and clear.
C23_NoSelfOverlap == \A id \in TaskIds : InFlightOf(id) <= 1

\* the ready tasks of the tick that just ran, and priority order in them
ReadySet == {tick.ready[i] : i \in 1..Len(tick.ready)}
ReadyDescending ==
  \A i, j \in 1..Len(tick.ready) :
    i < j => queue.tasks[tick.ready[i]].priority
               >= queue.tasks[tick.ready[j]].priority

\* C24 as stated: within one tick the tasks are dispatched in descending
\* priority order, and no ready task that the tick left undispatched has a
\* strictly higher priority than a task the tick dispatched.
C24_DispatchedAreHighest ==
  tick.ran =>
    /\ ReadyDescending
    /\ \A r \in ReadySet \ tick.started, d \in tick.started :
         queue.tasks[r].priority <= queue.tasks[d].priority

\* C24 amended: within one tick the tasks are dispatched in descending
\* priority order, and no ready task that is not already executing and that
\* the tick left undispatched has a strictly higher priority than a task the
\* tick dispatched.
C24_DispatchedAreHighestIdle ==
  tick.ran =>
    /\ ReadyDescending
    /\ \A r \in (ReadySet \ tick.started) \ queue.currentlyExecuting,
          d \in tick.started :
         queue.tasks[r].priority <= queue.tasks[d].priority

\* C24 witness: a tick found three tasks ready, none of them executing,
\* dispatched two and left the one of lowest priority
C24_Witness ==
  /\ tick.ran
  /\ tick.executingBefore = 0
  /\ Len(tick.ready) = 3
  /\ tick.started = {"t2", "t3"}
  /\ "t1" \notin queue.currentlyExecuting

\* what a failing execution leaves of the task it ran: old is the task before
\* the catch block of execute() ran, at the instant now
FailureKept(id, old) ==
  LET cap == ScheduledTask_countCap(old, statCap)
  IN /\ MapHas(queue'.tasks, id)
     /\ queue'.tasks[id].nextExecution = now + old.interval
     /\ old.executionCount < cap =>
          queue'.tasks[id].executionCount = old.executionCount + 1
     /\ old.errorCount < statCap =>
          queue'.tasks[id].errorCount = old.errorCount + 1
     /\ (old.onError /\ old.onErrorCalls < statCap) =>
          queue'.tasks[id].onErrorCalls = old.onErrorCalls + 1
     /\ ~old.onError => queue'.tasks[id].onErrorCalls = old.onErrorCalls
     /\ queue'.tasks[id].isActive = old.isActive
     /\ queue'.isRunning = queue.isRunning

\* the execution that fails is not the one that reaches the task's
\* maxExecutions
BelowLimit(old) ==
  old.maxExecutions = Infinity \/ old.executionCount + 1 < old.maxExecutions

\* the promise job at the head runs the catch block of execute() for the
\* task object in the table, whose fn was rejected
RejectionRuns ==
  /\ jobs # <<>>
  /\ Head(jobs).kind = "execute"
  /\ ~Head(jobs).ok
  /\ Head(jobs).e.live
  /\ MapHas(queue.tasks, Head(jobs).e.id)
  /\ RunJob

\* the tick dispatches the task id, whose fn throws inside the tick
ThrowRuns(id) ==
  /\ MapHas(queue.tasks, id)
  /\ queue.tasks[id].fn = "throw"
  /\ Tick
  /\ id \in tick'.started

\* C25 as stated: a failing execution never removes or deactivates its
\* task and never stops the scheduler: after fn threw (inside the tick that
\* dispatched it) or rejected (in the promise job that runs the rest of
\* execute()), the task is still in the task table, its nextExecution is the
\* completion time plus its interval, its execution counter and its error
\* counter have each grown by one, and onError, if supplied, was called once.
C25_FailureKeepsTask ==
  [][/\ RejectionRuns =>
          FailureKept(Head(jobs).e.id, queue.tasks[Head(jobs).e.id])
     /\ \A id \in TaskIds2 :
          ThrowRuns(id) => FailureKept(id, queue.tasks[id])]_vars

\* C25 amended: a failing execution that is not the one that reaches the
\* task's maxExecutions never removes or deactivates its task and never stops
\* the scheduler: after fn threw or rejected, the task is still in the task
\* table, its nextExecution is the completion time plus its interval, its
\* execution counter and its error counter have each grown by one, and
\* onError, if supplied, was called once.  The promise job of a rejection
\* leaves the timer and the heap as they are.
C25_FailureBelowLimitKeepsTask ==
  [][/\ (RejectionRuns /\ BelowLimit(queue.tasks[Head(jobs).e.id])) =>
          /\ FailureKept(Head(jobs).e.id, queue.tasks[Head(jobs).e.id])
          /\ DOMAIN queue'.tasks = DOMAIN queue.tasks
          /\ queue'.dynamicTimer = queue.dynamicTimer
          /\ queue'.executionHeap = queue.executionHeap
     /\ \A id \in TaskIds2 :
          (ThrowRuns(id) /\ BelowLimit(queue.tasks[id])) =>
            FailureKept(id, queue.tasks[id])]_vars

\* C25 witness: the task with an onError callback and a limit of two
\* executions was rejected once, the other task threw inside the next tick,
\* and both are still active, with a running scheduler
C25_Witness ==
  /\ MapHas(queue.tasks, "t1")
  /\ queue.tasks["t1"].maxExecutions = 2
  /\ queue.tasks["t1"].errorCount = 1
  /\ queue.tasks["t1"].onErrorCalls = 1
  /\ queue.tasks["t1"].executionCount = 1
  /\ queue.tasks["t1"].nextExecution = now + 1
  /\ queue.tasks["t1"].isActive
  /\ MapHas(queue.tasks, "t2")
  /\ queue.tasks["t2"].errorCount = 1
  /\ queue.tasks["t2"].isActive
  /\ queue.isRunning
  /\ queue.dynamicTimer.pending
  /\ HeapKeys(queue.executionHeap) = {"t1", "t2"}

\* C26: after removeTask(id) returned true the task is in neither the task
\* table nor the heap, no tick dispatches a task that is not in the table,
\* even if one of its executions was in flight at the removal, and the
\* completion of such an execution (fn settling, and each promise job that
\* runs the rest of execute(), of _executeTask and of executeNow) puts
\* nothing back into the task table or the scheduling heap.
C26_RemovedStaysRemoved ==
  [][/\ \A id \in TaskIds2 :
          (RemoveTask(id) /\ MapHas(queue.tasks, id)) =>
            /\ ~MapHas(queue'.tasks, id)
            /\ id \notin HeapKeys(queue'.executionHeap)
            /\ InFlightOf(id)' = InFlightOf(id)
     /\ Tick =>
          /\ tick'.started \subseteq DOMAIN queue.tasks
          /\ \A id \in TaskIds2 \ DOMAIN queue.tasks :
               /\ InFlightOf(id)' = InFlightOf(id)
               /\ ~MapHas(queue'.tasks, id)
               /\ id \notin HeapKeys(queue'.executionHeap)
     /\ \A e \in DOMAIN inflight, ok \in BOOLEAN :
          (Complete(e, ok) /\ ~e.live /\ ~MapHas(queue.tasks, e.id)) =>
            /\ queue'.tasks = queue.tasks
            /\ queue'.executionHeap = queue.executionHeap
     /\ (/\ jobs # <<>>
         /\ Head(jobs).kind # "scheduleNextTick"
         /\ ~Head(jobs).e.live
         /\ ~MapHas(queue.tasks, Head(jobs).e.id)
         /\ RunJob) =>
          /\ queue'.tasks = queue.tasks
          /\ queue'.executionHeap = queue.executionHeap]_vars

\* C26 witness: the fn of a removed task has settled after a tick had
\* dispatched it, the rest of execute() has run and the rest of _executeTask
\* waits, while another task is in the table and in the heap
C26_Witness ==
  /\ jobs = <<Job("executeTask", DeadExec("t1"), TRUE)>>
  /\ ~MapHas(queue.tasks, "t1")
  /\ MapHas(queue.tasks, "t2")
  /\ "t1" \in queue.currentlyExecuting
  /\ HeapKeys(queue.executionHeap) = {"t2"}

\* C27: after stop() returned no task is dispatched until start() or
\* addTask() restarts the scheduler, wherever stop() was called from, also
\* from inside a running task: a stopped queue has no tick pending, and no
\* tick starts a task after a fn has stopped the queue.
C27_NoDispatchAfterStop ==
  /\ ~queue.isRunning => ~queue.dynamicTimer.pending
  /\ tick.ran => tick.afterStop = {}

\* C28: a ready task that a tick left undispatched because of the
\* concurrency cap stays in the heap with its nextExecution unchanged, and the
\* next tick treats it as ready again (it is retried, not skipped), whether
\* or not it has a debounce window.
C28_DeferredIsRetried ==
  [][Tick =>
       /\ \A id \in (ReadySet' \ tick'.started) \ queue.currentlyExecuting :
            /\ queue'.tasks[id].nextExecution = queue.tasks[id].nextExecution
            /\ \E i \in HeapItemsOf(queue'.executionHeap, id) :
                 queue'.executionHeap.heap[i].expiresAt
                   = queue.tasks[id].nextExecution
       /\ tick.ran =>
            \A id \in (ReadySet \ tick.started) \ queue.currentlyExecuting :
              /\ id \in ReadySet'
              /\ id \notin tick'.skipped]_vars

\* C29: for every configured minTickInterval <= maxTickInterval and every
\* heap content, the tick delay computed when the timer is set is
\* clamp(time until the minimum item of the heap, minTickInterval,
\* maxTickInterval), so it lies between the two.
C29_DelayIsClamped ==
  [][(/\ queue'.dynamicTimer.pending
      /\ queue'.dynamicTimer # queue.dynamicTimer
      /\ MinHeap_size(queue'.executionHeap) > 0) =>
       LET timeUntilNext ==
             Max(0, MinHeap_peek(queue'.executionHeap).expiresAt - now)
           delay == queue'.dynamicTimer.at - now
       IN /\ delay = Max(queue.minTickInterval,
                         Min(timeUntilNext, queue.maxTickInterval))
          /\ queue.minTickInterval <= delay
          /\ delay <= queue.maxTickInterval]_vars

\* what a tick at this instant would dispatch and skip
TickOutcome(Q) ==
  LET r == TaskQueue_processTasks(Q, inflight, jobs, now, statCap)
  IN <<r.tick.started, r.tick.skipped>>

\* C30: getStatus() is read-only with respect to scheduling: a call changes
\* neither which tasks a later tick dispatches or skips nor any task's
\* debounce state.
C30_GetStatusReadOnly ==
  [][GetStatus =>
       /\ \A id \in DOMAIN queue.tasks :
            queue'.tasks[id].debouncer = queue.tasks[id].debouncer
       /\ TickOutcome(queue') = TickOutcome(queue)]_vars

\* ------------------------------------------------ claims on the counters
\* C37: the miss counter is split into cold and expired misses: after any
\* sequence of cache operations misses = missesCold + missesExpired (the
\* counters are exact below statCap and stop there, so the sum of the two
\* parts can never be below the total).
C37_MissesSplit ==
  /\ stats.misses < statCap =>
       stats.misses = stats.missesCold + stats.missesExpired
  /\ stats.missesCold + stats.missesExpired >= stats.misses

\* C38: a queue whose tasks have no debounce configured keeps
\* totalSkippedByDebounce at 0 forever.
C38_NoDebounceNoSkip ==
  (\A id \in DOMAIN queue.tasks : ~queue.tasks[id].debouncer.set)
    => queue.stats.totalSkippedByDebounce = 0

\* ------------------------------------------- claims on the scheduling heap
\* C40: whenever the scheduler computes its next tick delay (a step that
\* sets the timer), every item of the scheduling heap carries the current
\* nextExecution of the task it names.
C40_HeapItemsCurrent ==
  [][(/\ queue'.dynamicTimer.pending
      /\ queue'.dynamicTimer # queue.dynamicTimer) =>
       \A i \in 1..Len(queue'.executionHeap.heap) :
         LET item == queue'.executionHeap.heap[i]
         IN MapHas(queue'.tasks, item.key) =>
              item.expiresAt = queue'.tasks[item.key].nextExecution]_vars

\* ------------------------------------------------- claims on the MinHeap
HeapOrdered(H) ==
  \A i \in 1..(Len(H.heap) - 1) :
    HeapAt(H, (i - 1) \div 2).expiresAt <= HeapAt(H, i).expiresAt

HeapIndexExact(H) ==
  /\ DOMAIN H.keyToIndex = HeapKeys(H)
  /\ \A k \in DOMAIN H.keyToIndex :
       /\ H.keyToIndex[k] \in 0..(Len(H.heap) - 1)
       /\ HeapAt(H, H.keyToIndex[k]).key = k

HeapKeysDistinct(H) ==
  \A i, j \in 1..Len(H.heap) : H.heap[i].key = H.heap[j].key => i = j

\* C35: after any sequence of push, pop, remove, extractAll and clear the
\* MinHeap is a valid indexed min-heap: every parent's priority is <= each of
\* its children's, keyToIndex holds exactly the keys of the array and maps
\* each to its current position, and no key occurs twice.
C35_ValidIndexedHeap ==
  /\ HeapOrdered(expirationHeap)
  /\ HeapIndexExact(expirationHeap)
  /\ HeapKeysDistinct(expirationHeap)

\* a remove has just taken a key out of a heap of six items with two
\* different priorities, and the five others are in place
C35_Witness ==
  /\ ret.op = "remove" /\ ret.flag
  /\ ret.key \notin HeapKeys(expirationHeap)
  /\ MinHeap_size(expirationHeap) = 5
  /\ Cardinality({expirationHeap.heap[i].expiresAt : i \in 1..5}) = 2

\* the items of a heap as a set of (key, priority) pairs
HeapItems(H) == {H.heap[i] : i \in 1..Len(H.heap)}

\* C36: remove(key) returns true exactly when the key was in the heap;
\* afterwards the key is absent and every other item is still present with
\* its priority unchanged, whichever position the key occupied.
C36_RemoveExact ==
  [][\A k \in HeapSpecKeys : HeapRemove(k) =>
       /\ ret'.flag = (k \in HeapKeys(expirationHeap))
       /\ k \notin HeapKeys(expirationHeap')
       /\ HeapItems(expirationHeap')
            = {it \in HeapItems(expirationHeap) : it.key # k}
       /\ MinHeap_size(expirationHeap')
            = Cardinality({it \in HeapItems(expirationHeap) : it.key # k})]_vars

\* a remove has just returned true for a key that was neither the root nor
\* the last item: the root and the four other items are still there
C36_Witness ==
  /\ ret.op = "remove" /\ ret.flag
  /\ MinHeap_size(expirationHeap) = 5
  /\ HeapKeys(expirationHeap) = HeapSpecKeys \ {ret.key}
  /\ ret.key = "b"
  /\ HeapAt(expirationHeap, 0).key = "a"

\* --------------------------------------------- claims on the tick timer
PendingTimers(Q) == Q.strayTimers + (IF Q.dynamicTimer.pending THEN 1 ELSE 0)

\* C34: at every moment a queue has at most one tick timer pending, across
\* any sequence of start, stop, addTask, removeTask, clear and ticks,
\* including calls made from inside running tasks.
C34_OneTimerPending == PendingTimers(queue) <= 1

\* a tick has just run a task whose fn stopped and restarted the queue, and
\* the queue has its timer pending
C34_Witness ==
  /\ tick.ran
  /\ \E id \in tick.started :
       MapHas(queue.tasks, id) /\ queue.tasks[id].fn = "restart"
  /\ queue.isRunning
  /\ queue.dynamicTimer.pending

\* C33: no task execution produces an error that escapes uncaught, also when
\* the queue is cleared or destroyed while the execution is in flight.
C33_NothingEscapes == queue.unhandledRejections = 0

\* ------------------------------------- claims on the registered tasks
HasCleanupTask(Q, m) ==
  \E id \in DOMAIN Q.tasks : Q.tasks[id].fn = CleanupFn(m)

\* C31: starting, stopping or destroying one manager's auto-cleanup never
\* replaces or removes the cleanup task of another manager.
C31_CleanupTasksIndependent ==
  [][\A m, other \in Managers :
       (/\ m # other
        /\ \/ CacheManager_startAutoCleanup(m)
           \/ CacheManager_stopAutoCleanup(m)
           \/ CacheManager_destroy(m)
        /\ HasCleanupTask(queue, other)) => HasCleanupTask(queue', other)]_vars

\* C32: after destroy() on a persistent cache created with an autosave
\* interval its autosave task is no longer registered in the scheduler.
C32_DestroyUnregistersAutosave ==
  [][\A p \in persistent :
       (p.autoSave /\ PersistentCache_destroy(p))
         => ~MapHas(queue'.tasks, SaveTaskId(p.storageKey))]_vars

\* C39: save() leaves the wrapped cache unchanged: the recency order, the
\* hit and miss counters and the access count of every entry are the same
\* after a save as before it.
C39_SaveLeavesCacheUnchanged ==
  [][\A p \in persistent :
       PersistentCache_save(p) =>
         /\ lruList' = lruList
         /\ stats'.hits = stats.hits
         /\ stats'.misses = stats.misses
         /\ \A k \in DOMAIN entries :
              /\ MapHas(entries', k)
              /\ entries'[k].accessCount = entries[k].accessCount]_vars

====
